---- MODULE Spec2Model ----
(***************************************************************************)
(* AidRoute: the mission planner (metta_reasoner.py) and the disaster      *)
(* prioritizer (gdacs_analyzer.py).                                        *)
(*                                                                         *)
(* Representation                                                          *)
(*  - Python text that the code lower-cases or searches (urgency,          *)
(*    location, typeName) is a sequence of one-character strings, so that  *)
(*    str.lower() and the `in` substring test are computed, not assumed.   *)
(*    Dictionary keys and item codes, which the code only compares for     *)
(*    equality, are plain strings.                                         *)
(*  - Money is an integer number of cents; cost['total'] = round(x, 2) is  *)
(*    then exact.  The regional multiplier is an integer number of tenths  *)
(*    (1.4 is 14).                                                         *)
(*  - A Python call either returns a value or raises:                      *)
(*    [raised |-> FALSE, value |-> v] or [raised |-> TRUE, exc |-> name].  *)
(***************************************************************************)
EXTENDS Integers, Sequences, FiniteSets, TLC

VARIABLES
    pc,         \* position of the running entry point
    disasters,  \* analyze_disasters: the batch passed by the caller
    taken,      \* analyze_disasters: the records the loop has taken so far
    analyses,   \* analyze_disasters: the local list `analyses`
    errors,     \* analyze_disasters: exceptions written by self.logger.error
    call,       \* the arguments of the function under evaluation
    ret,        \* its return value
    locals,     \* the local variables of each call in flight
    globals,    \* aidroute_agent.py: the module globals set at start-up
    sent,       \* aidroute_agent.py: the messages handed to ctx.send
    chain       \* the state of the AidRouteMissions contract

vars ==
    <<pc, disasters, taken, analyses, errors, call, ret, locals, globals, sent,
      chain>>

----------------------------------------------------------------------------
(* Python values *)

None == <<"None">>

NoRet == [raised |-> FALSE, value |-> None]

Returned(v) == [raised |-> FALSE, value |-> v]

Raised(e) == [raised |-> TRUE, exc |-> e]

\* dict.get(key, default)
Get(d, key, default) == IF key \in DOMAIN d THEN d[key] ELSE default

Min(a, b) == IF a <= b THEN a ELSE b

Max(a, b) == IF a >= b THEN a ELSE b

\* int(n / d) for an exact rational n / d with d > 0: truncation toward zero
IntTrunc(n, d) == IF n >= 0 THEN n \div d ELSE -((-n) \div d)

UpperCase ==
    <<"A", "B", "C", "D", "E", "F", "G", "H", "I", "J", "K", "L", "M",
      "N", "O", "P", "Q", "R", "S", "T", "U", "V", "W", "X", "Y", "Z">>

LowerCase ==
    <<"a", "b", "c", "d", "e", "f", "g", "h", "i", "j", "k", "l", "m",
      "n", "o", "p", "q", "r", "s", "t", "u", "v", "w", "x", "y", "z">>

LowerChar(c) ==
    IF \E i \in 1..26 : UpperCase[i] = c
    THEN LowerCase[CHOOSE i \in 1..26 : UpperCase[i] = c]
    ELSE c

UpperChar(c) ==
    IF \E i \in 1..26 : LowerCase[i] = c
    THEN UpperCase[CHOOSE i \in 1..26 : LowerCase[i] = c]
    ELSE c

\* str.lower()
Lower(s) == [i \in DOMAIN s |-> LowerChar(s[i])]

\* str.capitalize()
Capitalize(s) ==
    [i \in DOMAIN s |-> IF i = 1 THEN UpperChar(s[i]) ELSE LowerChar(s[i])]

\* str.replace(old, new) for one-character old and new
Replace(s, old, new) == [i \in DOMAIN s |-> IF s[i] = old THEN new ELSE s[i]]

\* sub in s
Contains(s, sub) ==
    \E i \in 0..(Len(s) - Len(sub)) : SubSeq(s, i + 1, i + Len(sub)) = sub

\* truth value of an Optional[str]
Truthy(v) == v # None /\ v # <<>>

----------------------------------------------------------------------------
(* Text literals of the source *)

s_critical == <<"c", "r", "i", "t", "i", "c", "a", "l">>

s_urgent == <<"u", "r", "g", "e", "n", "t">>

s_high == <<"h", "i", "g", "h">>

s_medium == <<"m", "e", "d", "i", "u", "m">>

s_low == <<"l", "o", "w">>

s_normal == <<"n", "o", "r", "m", "a", "l">>

s_gaza == <<"g", "a", "z", "a">>

s_syria == <<"s", "y", "r", "i", "a">>

s_yemen == <<"y", "e", "m", "e", "n">>

s_sudan == <<"s", "u", "d", "a", "n">>

s_haiti == <<"h", "a", "i", "t", "i">>

s_ukraine == <<"u", "k", "r", "a", "i", "n", "e">>

s_afghanistan == <<"a", "f", "g", "h", "a", "n", "i", "s", "t", "a", "n">>

s_medical == <<"m", "e", "d", "i", "c", "a", "l">>

s_health == <<"h", "e", "a", "l", "t", "h">>

s_doctor == <<"d", "o", "c", "t", "o", "r">>

s_hospital == <<"h", "o", "s", "p", "i", "t", "a", "l">>

s_food == <<"f", "o", "o", "d">>

s_hunger == <<"h", "u", "n", "g", "e", "r">>

s_nutrition == <<"n", "u", "t", "r", "i", "t", "i", "o", "n">>

s_meal == <<"m", "e", "a", "l">>

s_water == <<"w", "a", "t", "e", "r">>

s_clean == <<"c", "l", "e", "a", "n">>

s_purification ==
    <<"p", "u", "r", "i", "f", "i", "c", "a", "t", "i", "o", "n">>

s_shelter == <<"s", "h", "e", "l", "t", "e", "r">>

s_tent == <<"t", "e", "n", "t">>

s_housing == <<"h", "o", "u", "s", "i", "n", "g">>

s_emergency == <<"e", "m", "e", "r", "g", "e", "n", "c", "y">>

s_immediate == <<"i", "m", "m", "e", "d", "i", "a", "t", "e">>

s_earthquake == <<"e", "a", "r", "t", "h", "q", "u", "a", "k", "e">>

s_cyclone == <<"c", "y", "c", "l", "o", "n", "e">>

s_flood == <<"f", "l", "o", "o", "d">>

s_volcano == <<"v", "o", "l", "c", "a", "n", "o">>

s_wildfire == <<"w", "i", "l", "d", "f", "i", "r", "e">>

s_drought == <<"d", "r", "o", "u", "g", "h", "t">>

s_Disaster == <<"D", "i", "s", "a", "s", "t", "e", "r">>

s_Unknown == <<"U", "n", "k", "n", "o", "w", "n">>

----------------------------------------------------------------------------
(* Text literals of aidroute_agent.py and of query_knowledge *)

s_create == <<"c", "r", "e", "a", "t", "e">>

s_new == <<"n", "e", "w">>

s_start == <<"s", "t", "a", "r", "t">>

s_mission == <<"m", "i", "s", "s", "i", "o", "n">>

s_status == <<"s", "t", "a", "t", "u", "s">>

s_check == <<"c", "h", "e", "c", "k">>

s_how == <<"h", "o", "w">>

s_progress == <<"p", "r", "o", "g", "r", "e", "s", "s">>

s_donate == <<"d", "o", "n", "a", "t", "e">>

s_fund == <<"f", "u", "n", "d">>

s_contribute == <<"c", "o", "n", "t", "r", "i", "b", "u", "t", "e">>

s_help == <<"h", "e", "l", "p">>

s_suggest == <<"s", "u", "g", "g", "e", "s", "t">>

s_recommend == <<"r", "e", "c", "o", "m", "m", "e", "n", "d">>

s_optimize == <<"o", "p", "t", "i", "m", "i", "z", "e">>

s_plan == <<"p", "l", "a", "n">>

s_hello == <<"h", "e", "l", "l", "o">>

s_hi == <<"h", "i">>

s_what == <<"w", "h", "a", "t">>

s_crisis == <<"c", "r", "i", "s", "i", "s">>

s_type == <<"t", "y", "p", "e">>

s_supply == <<"s", "u", "p", "p", "l", "y">>

s_item == <<"i", "t", "e", "m">>

----------------------------------------------------------------------------
(* metta_reasoner.py: cost, impact and efficiency *)

cost_map ==
    [c \in {"medical-kit-basic", "medical-kit-advanced", "food-package-family",
            "water-purification-kit", "shelter-tent-family",
            "clothing-package-adult"} |->
        CASE c = "medical-kit-basic" -> 250
          [] c = "medical-kit-advanced" -> 1500
          [] c = "food-package-family" -> 150
          [] c = "water-purification-kit" -> 400
          [] c = "shelter-tent-family" -> 800
          [] c = "clothing-package-adult" -> 75]

DefaultUnitCost == 100

LogisticsRatePct == 20

AdminRatePct == 5

RECURSIVE base_cost_of(_)
\* the loop `for supply in supplies: base_cost += unit_cost * quantity`
base_cost_of(supplies) ==
    IF supplies = <<>> THEN 0
    ELSE base_cost_of(Tail(supplies))
         + Get(cost_map, Head(supplies).code, DefaultUnitCost)
           * Head(supplies).quantity

\* multiplier (in tenths) and risk_factors chosen by the location branch
region_of(location) ==
    IF ~Truthy(location) THEN [multiplier |-> 10, risk_factors |-> <<>>]
    ELSE LET location_lower == Lower(location) IN
         IF location_lower \in {s_gaza}
         THEN [multiplier |-> 14, risk_factors |-> <<"Access-limited region">>]
         ELSE IF location_lower \in {s_syria, s_yemen}
         THEN [multiplier |-> 16, risk_factors |-> <<"Conflict zone">>]
         ELSE IF location_lower \in {s_sudan, s_haiti}
         THEN [multiplier |-> 13,
               risk_factors |-> <<"Infrastructure challenges">>]
         ELSE [multiplier |-> 10, risk_factors |-> <<>>]

\* variant: the logistics overhead ignores the regional multiplier
_estimate_costs_flat(supplies, location) ==
    LET base_cost == base_cost_of(supplies)
        region == region_of(location)
        logistics_cost == base_cost * LogisticsRatePct
        admin_cost == base_cost * AdminRatePct
        total == base_cost * 100 + logistics_cost + admin_cost
    IN  [base_cost |-> base_cost * 100,
         logistics_cost |-> logistics_cost,
         admin_cost |-> admin_cost,
         total |-> total,
         multiplier |-> region.multiplier,
         risk_factors |-> region.risk_factors]

\* variant: the logistics overhead is subtracted instead of added
_estimate_costs_sign(supplies, location) ==
    LET base_cost == base_cost_of(supplies)
        region == region_of(location)
        logistics_cost == (base_cost * LogisticsRatePct * region.multiplier) \div 10
        admin_cost == base_cost * AdminRatePct
        total == base_cost * 100 - logistics_cost + admin_cost
    IN  [base_cost |-> base_cost * 100,
         logistics_cost |-> logistics_cost,
         admin_cost |-> admin_cost,
         total |-> total,
         multiplier |-> region.multiplier,
         risk_factors |-> region.risk_factors]

\* amounts in cents: base * 100, base * 0.20 * multiplier * 100, base * 0.05 * 100
_estimate_costs(supplies, location) ==
    LET base_cost == base_cost_of(supplies)
        region == region_of(location)
        logistics_cost == (base_cost * LogisticsRatePct * region.multiplier) \div 10
        admin_cost == base_cost * AdminRatePct
        total == base_cost * 100 + logistics_cost + admin_cost
    IN  [base_cost |-> base_cost * 100,
         logistics_cost |-> logistics_cost,
         admin_cost |-> admin_cost,
         total |-> total,
         multiplier |-> region.multiplier,
         risk_factors |-> region.risk_factors]

\* variant: no floor of 50 in the last tier and no final clamp
_calculate_efficiency_unclamped(cost, impact) ==
    IF cost.total = 0 THEN 0
    ELSE LET d == Max(impact.beneficiaries, 1) IN
         IF cost.total <= 20 * 100 * d THEN 100
         ELSE IF cost.total <= 50 * 100 * d
         THEN 100 - IntTrunc(cost.total - 20 * 100 * d, 100 * d)
         ELSE 70 - IntTrunc(cost.total - 50 * 100 * d, 200 * d)

\* variant: the last tier grows with the cost per person
_calculate_efficiency_rising(cost, impact) ==
    IF cost.total = 0 THEN 0
    ELSE LET d == Max(impact.beneficiaries, 1)
             efficiency ==
                 IF cost.total <= 20 * 100 * d THEN 100
                 ELSE IF cost.total <= 50 * 100 * d
                 THEN 100 - IntTrunc(cost.total - 20 * 100 * d, 100 * d)
                 ELSE Max(50, 70 + IntTrunc(cost.total - 50 * 100 * d, 200 * d))
         IN  Min(100, Max(0, efficiency))

\* variant: the middle tier declines at the rate of the last tier
_calculate_efficiency_slope(cost, impact) ==
    IF cost.total = 0 THEN 0
    ELSE LET d == Max(impact.beneficiaries, 1)
             efficiency ==
                 IF cost.total <= 20 * 100 * d THEN 100
                 ELSE IF cost.total <= 50 * 100 * d
                 THEN 100 - IntTrunc(cost.total - 20 * 100 * d, 200 * d)
                 ELSE Max(50, 70 - IntTrunc(cost.total - 50 * 100 * d, 200 * d))
         IN  Min(100, Max(0, efficiency))

\* cost.total in cents, impact.beneficiaries an integer;
\* cost_per_person = total / (100 * max(beneficiaries, 1)) dollars
_calculate_efficiency(cost, impact) ==
    IF cost.total = 0 THEN 0
    ELSE LET d == Max(impact.beneficiaries, 1)
             efficiency ==
                 IF cost.total <= 20 * 100 * d THEN 100
                 ELSE IF cost.total <= 50 * 100 * d
                 THEN 100 - IntTrunc(cost.total - 20 * 100 * d, 100 * d)
                 ELSE Max(50, 70 - IntTrunc(cost.total - 50 * 100 * d, 200 * d))
         IN  Min(100, Max(0, efficiency))

beneficiaries_map ==
    [c \in {"medical-kit-basic", "medical-kit-advanced", "food-package-family",
            "water-purification-kit", "shelter-tent-family"} |->
        CASE c = "medical-kit-basic" -> 50
          [] c = "medical-kit-advanced" -> 200
          [] c = "food-package-family" -> 6
          [] c = "water-purification-kit" -> 100
          [] c = "shelter-tent-family" -> 6]

DefaultBeneficiaries == 10

RECURSIVE beneficiaries_of(_)
\* the loop `for supply in supplies: total_beneficiaries += per_package * quantity`
beneficiaries_of(supplies) ==
    IF supplies = <<>> THEN 0
    ELSE beneficiaries_of(Tail(supplies))
         + Get(beneficiaries_map, Head(supplies).code, DefaultBeneficiaries)
           * Head(supplies).quantity

RECURSIVE packages_of(_)
\* sum(s['quantity'] for s in supplies)
packages_of(supplies) ==
    IF supplies = <<>> THEN 0
    ELSE packages_of(Tail(supplies)) + Head(supplies).quantity

\* variant: every package counts for the default number of people
_estimate_impact_default(supplies) ==
    [beneficiaries |-> packages_of(supplies) * DefaultBeneficiaries,
     packages |-> packages_of(supplies)]

_estimate_impact(supplies) ==
    [beneficiaries |-> beneficiaries_of(supplies),
     packages |-> packages_of(supplies)]

\* any(word in desc_lower for word in words)
AnyIn(words, desc_lower) == \E w \in words : Contains(desc_lower, w)

known_locations ==
    <<s_gaza, s_syria, s_yemen, s_sudan, s_haiti, s_ukraine, s_afghanistan>>

_parse_mission_intent(description) ==
    LET desc_lower == Lower(description)
        type ==
            IF AnyIn({s_medical, s_health, s_doctor, s_hospital}, desc_lower)
            THEN "medical-emergency"
            ELSE IF AnyIn({s_food, s_hunger, s_nutrition, s_meal}, desc_lower)
            THEN "food-security"
            ELSE IF AnyIn({s_water, s_clean, s_purification}, desc_lower)
            THEN "water-crisis"
            ELSE IF AnyIn({s_shelter, s_tent, s_housing}, desc_lower)
            THEN "shelter"
            ELSE "general"
        type_urgency ==
            IF type = "medical-emergency" THEN s_urgent
            ELSE IF type = "water-crisis" THEN s_critical
            ELSE s_normal
        hits == {i \in 1..Len(known_locations) :
                    Contains(desc_lower, known_locations[i])}
        location ==
            IF hits = {} THEN None
            ELSE Capitalize(known_locations[CHOOSE i \in hits :
                                               \A j \in hits : i <= j])
        urgency ==
            IF AnyIn({s_urgent, s_emergency, s_immediate, s_critical}, desc_lower)
            THEN s_urgent
            ELSE type_urgency
    IN  [type |-> type, urgency |-> urgency, location |-> location,
         needs |-> <<>>]

\* variant: a mission type without a branch of its own gets no supplies
_recommend_supplies_nofallback(intent) ==
    LET mission_type == Get(intent, "type", "general") IN
    IF mission_type = "medical-emergency"
    THEN <<[name |-> "Medical Kit - Basic", quantity |-> 10,
            code |-> "medical-kit-basic"],
           [name |-> "Medical Kit - Advanced", quantity |-> 2,
            code |-> "medical-kit-advanced"],
           [name |-> "Water Purification Kit", quantity |-> 3,
            code |-> "water-purification-kit"]>>
    ELSE IF mission_type = "food-security"
    THEN <<[name |-> "Food Package (Family)", quantity |-> 50,
            code |-> "food-package-family"],
           [name |-> "Water Purification Kit", quantity |-> 5,
            code |-> "water-purification-kit"]>>
    ELSE IF mission_type = "water-crisis"
    THEN <<[name |-> "Water Purification Kit", quantity |-> 20,
            code |-> "water-purification-kit"]>>
    ELSE <<>>

_recommend_supplies(intent) ==
    LET mission_type == Get(intent, "type", "general") IN
    IF mission_type = "medical-emergency"
    THEN <<[name |-> "Medical Kit - Basic", quantity |-> 10,
            code |-> "medical-kit-basic"],
           [name |-> "Medical Kit - Advanced", quantity |-> 2,
            code |-> "medical-kit-advanced"],
           [name |-> "Water Purification Kit", quantity |-> 3,
            code |-> "water-purification-kit"]>>
    ELSE IF mission_type = "food-security"
    THEN <<[name |-> "Food Package (Family)", quantity |-> 50,
            code |-> "food-package-family"],
           [name |-> "Water Purification Kit", quantity |-> 5,
            code |-> "water-purification-kit"]>>
    ELSE IF mission_type = "water-crisis"
    THEN <<[name |-> "Water Purification Kit", quantity |-> 20,
            code |-> "water-purification-kit"]>>
    ELSE <<[name |-> "Medical Kit - Basic", quantity |-> 5,
            code |-> "medical-kit-basic"],
           [name |-> "Food Package (Family)", quantity |-> 20,
            code |-> "food-package-family"],
           [name |-> "Water Purification Kit", quantity |-> 5,
            code |-> "water-purification-kit"],
           [name |-> "Shelter Tent (Family)", quantity |-> 10,
            code |-> "shelter-tent-family"]>>

\* variant: the regional delay replaces the base days instead of adding to them
_estimate_timeline_replaced(urgency, location) ==
    LET base_days ==
            IF urgency = s_urgent THEN 3
            ELSE IF urgency = s_critical THEN 2
            ELSE 7
        delay ==
            IF ~Truthy(location) THEN 0
            ELSE IF Lower(location) \in {s_syria, s_yemen} THEN 7
            ELSE IF Lower(location) \in {s_gaza} THEN 3
            ELSE 0
    IN  IF delay > 0 THEN delay ELSE base_days

_estimate_timeline(urgency, location) ==
    LET base_days ==
            IF urgency = s_urgent THEN 3
            ELSE IF urgency = s_critical THEN 2
            ELSE 7
        delay ==
            IF ~Truthy(location) THEN 0
            ELSE IF Lower(location) \in {s_syria, s_yemen} THEN 7
            ELSE IF Lower(location) \in {s_gaza} THEN 3
            ELSE 0
    IN  base_days + delay

\* the formatted text, kept as the values it is built from
_format_recommendation(supplies, cost) ==
    [supply_list |-> [i \in DOMAIN supplies |->
                         [quantity |-> supplies[i].quantity,
                          name |-> supplies[i].name]],
     total |-> cost.total,
     base_cost |-> cost.base_cost,
     logistics_cost |-> cost.logistics_cost,
     admin_cost |-> cost.admin_cost]

\* the explanation, kept as the sequence of its clauses
_generate_reasoning(intent, supplies, cost) ==
    <<[clause |-> "mission type", text |-> intent.type]>>
    \o (IF Truthy(Get(intent, "location", None))
        THEN <<[clause |-> "in", text |-> intent.location]>>
        ELSE <<>>)
    \o <<[clause |-> "optimized for", text |-> intent.urgency]>>
    \o (IF Get(cost, "risk_factors", <<>>) # <<>>
        THEN <<[clause |-> "Risk factors", text |-> cost.risk_factors]>>
        ELSE <<>>)
    \o <<[clause |-> "supply mix",
          text |-> "balances immediate needs with cost-effectiveness"]>>

\* the dict returned by optimize_mission_plan, from the values of its locals
mission_plan_of(intent, supplies, cost_estimate, impact, timeline) ==
    [recommendation |-> _format_recommendation(supplies, cost_estimate),
     reasoning |-> _generate_reasoning(intent, supplies, cost_estimate),
     estimated_cost |-> cost_estimate.total,
     estimated_beneficiaries |-> impact.beneficiaries,
     estimated_timeline |-> [days |-> timeline],
     efficiency_score |-> _calculate_efficiency(cost_estimate, impact),
     supplies |-> supplies,
     risk_factors |-> Get(cost_estimate, "risk_factors", <<>>)]

\* the value of a Python local: the expression is evaluated once, when the
\* name is bound
Only(S) == CHOOSE x \in S : TRUE

\* optimize_mission_plan once intent and supplies are known
plan_for(intent, supplies) ==
    Only({mission_plan_of(intent, supplies, cost_estimate, impact, timeline) :
            cost_estimate \in
                {_estimate_costs(supplies, Get(intent, "location", None))},
            impact \in {_estimate_impact(supplies)},
            timeline \in
                {_estimate_timeline(Get(intent, "urgency", None),
                                    Get(intent, "location", None))}})

\* optimize_mission_plan once the intent is parsed
plan_for_intent(intent) ==
    Only({plan_for(intent, supplies) :
            supplies \in {_recommend_supplies(intent)}})

optimize_mission_plan(mission_description) ==
    Only({plan_for_intent(intent) :
            intent \in {_parse_mission_intent(mission_description)}})

\* the parameters of `def optimize_mission_plan(self, mission_description)`
optimize_mission_plan_params == {"mission_description"}

\* a call of optimize_mission_plan with keyword arguments kwargs: Python
\* binds them to the parameters first and raises TypeError for a keyword
\* the function does not have, or a parameter left without a value
call_optimize_mission_plan(kwargs) ==
    IF DOMAIN kwargs = optimize_mission_plan_params
    THEN Returned(optimize_mission_plan(kwargs.mission_description))
    ELSE Raised("TypeError")

----------------------------------------------------------------------------
(* gdacs_analyzer.py: priority score *)

urgency_bonus_map ==
    [u \in {s_critical, s_urgent, s_high, s_medium} |->
        CASE u = s_critical -> 30
          [] u = s_urgent -> 25
          [] u = s_high -> 15
          [] u = s_medium -> 10]

DefaultUrgencyBonus == 5

\* variant: the severity scale is read upside down
_calculate_priority_score_inverted(severity, urgency, mission_plan) ==
    LET severity_score == (6 - severity) * 10
        urgency_bonus == Get(urgency_bonus_map, Lower(urgency), DefaultUrgencyBonus)
        efficiency_bonus == IntTrunc(mission_plan.efficiency_score * 2, 10)
    IN  Min(100, severity_score + urgency_bonus + efficiency_bonus)

\* variant: the urgency is looked up as written, not lower-cased
_calculate_priority_score_cased(severity, urgency, mission_plan) ==
    LET severity_score == severity * 10
        urgency_bonus == Get(urgency_bonus_map, urgency, DefaultUrgencyBonus)
        efficiency_bonus == IntTrunc(mission_plan.efficiency_score * 2, 10)
    IN  Min(100, severity_score + urgency_bonus + efficiency_bonus)

_calculate_priority_score(severity, urgency, mission_plan) ==
    LET severity_score == severity * 10
        urgency_bonus == Get(urgency_bonus_map, Lower(urgency), DefaultUrgencyBonus)
        efficiency_bonus == IntTrunc(mission_plan.efficiency_score * 2, 10)
    IN  Min(100, severity_score + urgency_bonus + efficiency_bonus)

----------------------------------------------------------------------------
(* gdacs_analyzer.py: one record *)

event_mapping ==
    [e \in {"EQ", "TC", "FL", "VO", "WF", "DR"} |->
        CASE e = "EQ" -> s_earthquake
          [] e = "TC" -> s_cyclone
          [] e = "FL" -> s_flood
          [] e = "VO" -> s_volcano
          [] e = "WF" -> s_wildfire
          [] e = "DR" -> s_drought]

\* variant: the type name is lower-cased but keeps its spaces
_map_event_to_crisis_spaced(event_type, type_name) ==
    IF type_name = None THEN Raised("AttributeError")
    ELSE Returned(Get(event_mapping, event_type, Lower(type_name)))

\* mapping.get(event_type, type_name.lower().replace(" ", "-")): the default
\* is evaluated before the lookup, so a type_name that is not text raises
_map_event_to_crisis(event_type, type_name) ==
    IF type_name = None THEN Raised("AttributeError")
    ELSE Returned(Get(event_mapping, event_type,
                      Replace(Lower(type_name), " ", "-")))

\* variant: the urgency is compared as written, not lower-cased
_generate_recommendation_cased(type_name, location, urgency, mission_plan) ==
    <<[sentence |-> "Recommended emergency response for",
       type_name |-> type_name, location |-> location],
      [sentence |-> "Deploy within",
       timeline |-> mission_plan.estimated_timeline,
       beneficiaries |-> mission_plan.estimated_beneficiaries],
      [sentence |-> "Estimated cost", cost |-> mission_plan.estimated_cost]>>
    \o (IF urgency \in {s_critical, s_urgent}
        THEN <<[sentence |-> "IMMEDIATE ACTION REQUIRED"]>>
        ELSE <<>>)

\* the recommendation, kept as the sequence of its sentences
_generate_recommendation(type_name, location, urgency, mission_plan) ==
    <<[sentence |-> "Recommended emergency response for",
       type_name |-> type_name, location |-> location],
      [sentence |-> "Deploy within",
       timeline |-> mission_plan.estimated_timeline,
       beneficiaries |-> mission_plan.estimated_beneficiaries],
      [sentence |-> "Estimated cost", cost |-> mission_plan.estimated_cost]>>
    \o (IF Lower(urgency) \in {s_critical, s_urgent}
        THEN <<[sentence |-> "IMMEDIATE ACTION REQUIRED"]>>
        ELSE <<>>)

\* challenging_regions in insertion order
challenging_regions ==
    <<[region |-> s_gaza,
       risk |-> "Restricted access zone with security concerns"],
      [region |-> s_syria,
       risk |-> "Active conflict zone requiring security protocols"],
      [region |-> s_yemen,
       risk |-> "Restricted access with logistics challenges"],
      [region |-> s_haiti,
       risk |-> "Infrastructure damage may affect delivery"],
      [region |-> s_afghanistan, risk |-> "Security clearance required"]>>

\* variant: the loop over the regions has no break
_identify_risk_factors_all(location, urgency, severity) ==
    LET urgency_risks ==
            IF Lower(urgency) \in {s_critical, s_urgent}
            THEN <<"High urgency requires expedited delivery">>
            ELSE <<>>
        severity_risks ==
            IF severity >= 4
            THEN <<"High severity crisis with potential access challenges">>
            ELSE <<>>
        matching == SelectSeq(challenging_regions,
                              LAMBDA r : Contains(Lower(location), r.region))
        location_risks == [i \in DOMAIN matching |-> matching[i].risk]
        risks == urgency_risks \o severity_risks \o location_risks
    IN  IF risks = <<>> THEN <<"Standard logistics challenges">> ELSE risks

_identify_risk_factors(location, urgency, severity) ==
    LET urgency_risks ==
            IF Lower(urgency) \in {s_critical, s_urgent}
            THEN <<"High urgency requires expedited delivery">>
            ELSE <<>>
        severity_risks ==
            IF severity >= 4
            THEN <<"High severity crisis with potential access challenges">>
            ELSE <<>>
        hits == {i \in 1..Len(challenging_regions) :
                    Contains(Lower(location), challenging_regions[i].region)}
        location_risks ==
            IF hits = {} THEN <<>>
            ELSE <<challenging_regions[CHOOSE i \in hits :
                                          \A j \in hits : i <= j].risk>>
        risks == urgency_risks \o severity_risks \o location_risks
    IN  IF risks = <<>> THEN <<"Standard logistics challenges">> ELSE risks

\* the dict returned by analyze_single_disaster; f holds the locals read
\* from the record; mission_plan["crisis_category"] raises KeyError for a
\* plan without that key
analysis_of(f, mission_plan) ==
    IF f.urgency = None \/ f.location = None THEN Raised("AttributeError")
    ELSE IF "crisis_category" \notin DOMAIN mission_plan
    THEN Raised("KeyError")
    ELSE Returned(
        [disaster |->
            [title |-> f.title, location |-> f.location,
             eventType |-> f.event_type, typeName |-> f.type_name,
             severity |-> f.severity, urgency |-> f.urgency,
             description |-> f.description],
         mission_plan |->
            [location |-> f.location,
             crisis_type |-> mission_plan.crisis_category,
             urgency |-> f.urgency,
             supplies |-> mission_plan.supplies,
             estimated_cost |-> mission_plan.estimated_cost,
             estimated_beneficiaries |-> mission_plan.estimated_beneficiaries,
             estimated_timeline |-> mission_plan.estimated_timeline,
             efficiency_score |-> mission_plan.efficiency_score,
             reasoning |-> mission_plan.reasoning,
             recommendation |->
                 _generate_recommendation(f.type_name, f.location, f.urgency,
                                          mission_plan),
             risk_factors |->
                 _identify_risk_factors(f.location, f.urgency, f.severity)],
         priority_score |->
             _calculate_priority_score(f.severity, f.urgency, mission_plan)])

\* analyze_single_disaster after the call of the planner, planned its outcome
analyze_planned(f, planned) ==
    IF planned.raised THEN planned ELSE analysis_of(f, planned.value)

\* analyze_single_disaster after _map_event_to_crisis, crisis_type its outcome
analyze_mapped(f, crisis_type) ==
    IF crisis_type.raised THEN crisis_type
    ELSE analyze_planned(
             f, call_optimize_mission_plan([crisis_type |-> crisis_type.value,
                                            location |-> f.location,
                                            urgency |-> f.urgency]))

\* analyze_single_disaster once the fields are read from the record
analyze_fields(f) ==
    analyze_mapped(f, _map_event_to_crisis(f.event_type, f.type_name))

\* the locals analyze_single_disaster reads from the record with .get
read_fields(items) ==
    [event_type |-> Get(items, "eventType", "DR"),
     type_name |-> Get(items, "typeName", s_Disaster),
     location |-> Get(items, "location", s_Unknown),
     severity |-> Get(items, "severity", 3),
     urgency |-> Get(items, "urgency", s_medium),
     title |-> Get(items, "title", "Disaster Event"),
     description |-> Get(items, "description", "")]

\* what analyze_single_disaster knows of the crisis when it calls the
\* planner: the mapped crisis type and the fields read from the record
normalized(f, crisis_type) ==
    IF crisis_type.raised THEN crisis_type
    ELSE Returned([crisis_type |-> crisis_type.value, location |-> f.location,
                   severity |-> f.severity, urgency |-> f.urgency])

\* analyze_single_disaster up to the call of the planner
normalize(items) ==
    normalized(read_fields(items),
               _map_event_to_crisis(read_fields(items).event_type,
                                    read_fields(items).type_name))

\* a batch element is [type |-> "dict", items |-> the dict] or a value of
\* another Python type, [type |-> "NoneType"], which has no .get
analyze_single_disaster(disaster) ==
    IF disaster.type # "dict" THEN Raised("AttributeError")
    ELSE analyze_fields(read_fields(disaster.items))

----------------------------------------------------------------------------
(* gdacs_analyzer.py: the batch *)

BatchLimit == 10

\* variant: the batch is not cut
first_records_all(list) == list

\* disasters[:10]
first_records(list) == SubSeq(list, 1, Min(Len(list), BatchLimit))

\* key=lambda x: x.get("priority_score", 0)
sort_key(x) == Get(x, "priority_score", 0)

\* variant: x goes before the elements with an equal key
insert_position_unstable(sorted, x) ==
    Cardinality({i \in 1..Len(sorted) : sort_key(sorted[i]) > sort_key(x)})

\* where list.sort(reverse=True) puts x in an already sorted list: after
\* every element whose key is greater than or equal to the key of x
insert_position(sorted, x) ==
    Cardinality({i \in 1..Len(sorted) : sort_key(sorted[i]) >= sort_key(x)})

RECURSIVE sort_reverse(_)
\* list.sort(key=..., reverse=True): descending, elements with equal keys
\* keep their original order
sort_reverse(list) ==
    IF list = <<>> THEN <<>>
    ELSE LET sorted == sort_reverse(SubSeq(list, 1, Len(list) - 1))
             x == list[Len(list)]
             k == insert_position(sorted, x)
         IN  SubSeq(sorted, 1, k) \o <<x>> \o SubSeq(sorted, k + 1, Len(sorted))

\* one iteration of `for disaster in disasters[:10]`, try/except included
AnalyzeNext ==
    /\ pc = "loop"
    /\ Len(taken) < Len(first_records(disasters))
    /\ LET disaster == first_records(disasters)[Len(taken) + 1]
           analysis == analyze_single_disaster(disaster)
       IN  /\ taken' = Append(taken, disaster)
           /\ IF analysis.raised
              THEN /\ errors' = Append(errors, analysis.exc)
                   /\ UNCHANGED analyses
              ELSE /\ analyses' = Append(analyses, analysis.value)
                   /\ UNCHANGED errors
    /\ UNCHANGED <<pc, disasters, call, ret, locals,
                 globals, sent, chain>>

\* the loop is over: analyses.sort(...); return analyses
SortAndReturn ==
    /\ pc = "loop"
    /\ Len(taken) = Len(first_records(disasters))
    /\ analyses' = sort_reverse(analyses)
    /\ ret' = Returned(analyses')
    /\ pc' = "done"
    /\ UNCHANGED <<disasters, taken, errors, call, locals,
                 globals, sent, chain>>

----------------------------------------------------------------------------
(* Several calls of the core at once: each call runs in a frame of its own,
   one statement at a time; the batch is the one list object its callers
   share *)

\* the frame of a method before its first assignment
NoLocals == [self |-> "self"]

\* variant: the name is assigned in one frame shared by every call
bind_local_shared(frames, p, name, value) ==
    [q \in DOMAIN frames |-> (name :> value) @@ frames[q]]

\* the assignment `name = value` in the frame of call p
bind_local(frames, p, name, value) ==
    [frames EXCEPT ![p] = (name :> value) @@ @]

\* one iteration of the loop of analyze_disasters in call p
ConcAnalyzeNext(p) ==
    /\ pc[p] = "loop"
    /\ call[p].fn = "analyze_disasters"
    /\ Len(taken[p]) < Len(first_records(disasters))
    /\ LET disaster == first_records(disasters)[Len(taken[p]) + 1]
           analysis == analyze_single_disaster(disaster)
       IN  /\ taken' = [taken EXCEPT ![p] = Append(@, disaster)]
           /\ IF analysis.raised
              THEN /\ errors' = Append(errors, analysis.exc)
                   /\ UNCHANGED analyses
              ELSE /\ analyses' = [analyses EXCEPT
                                      ![p] = Append(@, analysis.value)]
                   /\ UNCHANGED errors
    /\ UNCHANGED <<pc, disasters, call, ret, locals, globals, sent, chain>>

\* analyses.sort(...); return analyses in call p
ConcSortAndReturn(p) ==
    /\ pc[p] = "loop"
    /\ call[p].fn = "analyze_disasters"
    /\ Len(taken[p]) = Len(first_records(disasters))
    /\ analyses' = [analyses EXCEPT ![p] = sort_reverse(@)]
    /\ ret' = [ret EXCEPT ![p] = Returned(analyses'[p])]
    /\ pc' = [pc EXCEPT ![p] = "done"]
    /\ UNCHANGED <<disasters, taken, errors, call, locals, globals, sent,
                   chain>>

\* the call of optimize_mission_plan binds its arguments, or raises
PlanBind(p) ==
    /\ pc[p] = "bind"
    /\ call[p].fn = "optimize_mission_plan"
    /\ IF DOMAIN call[p].kwargs = optimize_mission_plan_params
       THEN /\ locals' = bind_local(locals, p, "mission_description",
                                    call[p].kwargs.mission_description)
            /\ pc' = [pc EXCEPT ![p] = "parse"]
            /\ UNCHANGED ret
       ELSE /\ ret' = [ret EXCEPT ![p] = Raised("TypeError")]
            /\ pc' = [pc EXCEPT ![p] = "done"]
            /\ UNCHANGED locals
    /\ UNCHANGED <<disasters, taken, analyses, errors, call, globals, sent,
                   chain>>

\* intent = self._parse_mission_intent(mission_description)
PlanParse(p) ==
    /\ pc[p] = "parse"
    /\ locals' = bind_local(locals, p, "intent",
                            _parse_mission_intent(locals[p].mission_description))
    /\ pc' = [pc EXCEPT ![p] = "supplies"]
    /\ UNCHANGED <<disasters, taken, analyses, errors, call, ret, globals,
                   sent, chain>>

\* supplies = self._recommend_supplies(intent)
PlanSupplies(p) ==
    /\ pc[p] = "supplies"
    /\ locals' = bind_local(locals, p, "supplies",
                            _recommend_supplies(locals[p].intent))
    /\ pc' = [pc EXCEPT ![p] = "estimate"]
    /\ UNCHANGED <<disasters, taken, analyses, errors, call, ret, globals,
                   sent, chain>>

\* the estimates and `return {...}`
PlanReturn(p) ==
    /\ pc[p] = "estimate"
    /\ ret' = [ret EXCEPT
                  ![p] = Returned(plan_for(locals[p].intent,
                                           locals[p].supplies))]
    /\ pc' = [pc EXCEPT ![p] = "done"]
    /\ UNCHANGED <<disasters, taken, analyses, errors, call, locals, globals,
                   sent, chain>>

----------------------------------------------------------------------------
(* metta_reasoner.py: validate_mission.  mission_data is a dict: a function
   whose domain is the keys it has *)

\* `not mission_data.get(key)`: the key is missing or its value is the
\* falsy value of its type (0, "" or [])
not_get(mission_data, key, falsy) ==
    key \notin DOMAIN mission_data \/ mission_data[key] = falsy

\* variant: a check does not overwrite the reason of an earlier failed check
checked_first(result, failed, reason) ==
    IF failed /\ result.is_valid
    THEN [is_valid |-> FALSE, reason |-> reason]
    ELSE result

\* one check of validate_mission: the assignments under its `if`
checked(result, failed, reason) ==
    IF failed THEN [is_valid |-> FALSE, reason |-> reason] ELSE result

\* the four checks in the order of the source, each on the outcome of the
\* one before; the second operand of `or` is read only when the first is false
run_checks(mission_data) ==
    checked(
      checked(
        checked(
          checked([is_valid |-> TRUE, reason |-> ""],
                  not_get(mission_data, "location", <<>>),
                  "Location is required"),
          \/ not_get(mission_data, "funding_goal", 0)
          \/ mission_data["funding_goal"] <= 0,
          "Valid funding goal is required"),
        \/ not_get(mission_data, "items", <<>>)
        \/ Len(mission_data["items"]) = 0,
        "At least one supply item is required"),
      Get(mission_data, "funding_goal", 0) > 1000000,
      "Funding goal exceeds reasonable limit ($1M PYUSD)")

validate_mission(mission_data) ==
    [is_valid |-> run_checks(mission_data).is_valid,
     reason |-> IF ~run_checks(mission_data).is_valid
                THEN run_checks(mission_data).reason
                ELSE "Mission data is valid"]

----------------------------------------------------------------------------
(* metta_reasoner.py: query_knowledge *)

\* the answer, kept as the branch that wrote it
query_knowledge(query) ==
    LET query_lower == Lower(query) IN
    [answer |->
         IF Contains(query_lower, s_crisis) \/ Contains(query_lower, s_type)
         THEN "I know about these crisis types"
         ELSE IF Contains(query_lower, s_supply)
                 \/ Contains(query_lower, s_item)
         THEN "I can help with these supply categories"
         ELSE "I have knowledge about humanitarian crisis types",
     knowledge |-> [crisis_types |-> 6, supply_categories |-> 5],
     related_queries |-> 3]

----------------------------------------------------------------------------
(* aidroute_agent.py: start-up.  env is the environment of the process:
   launched_as "script" (python src/aidroute_agent.py, or imported as a
   top-level module) or "package", hyperon_installed, rpc_connected *)

\* lines 83-89: a relative import raises ImportError in a module that has
\* no parent package; inside a package metta_reasoner.py is imported, and
\* it catches the ImportError of hyperon itself
import_metta_reasoner(env) ==
    IF env.launched_as = "script" THEN Raised("ImportError")
    ELSE Returned([METTA_AVAILABLE |-> env.hyperon_installed])

\* lines 92-99: the import and BlockchainInterface(...), which raises
\* ConnectionError when the node does not answer
import_blockchain_interface(env) ==
    IF env.launched_as = "script" THEN Raised("ImportError")
    ELSE IF ~env.rpc_connected THEN Raised("ConnectionError")
    ELSE Returned("blockchain")

\* MettaHumanitarianReasoner.__init__
MettaHumanitarianReasoner(module) ==
    IF ~module.METTA_AVAILABLE THEN Raised("ImportError")
    ELSE Returned(<<"MettaHumanitarianReasoner">>)

\* the assignment of a module global
set_global(g, name, value) == (name :> value) @@ g

\* try: from .metta_reasoner import ...; except ImportError
ImportMetta ==
    /\ pc = "import_metta"
    /\ globals' = set_global(globals, "metta_enabled",
                             ~import_metta_reasoner(call.env).raised)
    /\ pc' = "import_blockchain"
    /\ UNCHANGED <<disasters, taken, analyses, errors, call, ret, locals,
                   sent, chain>>

\* try: from .blockchain_interface import ...; except Exception
ImportBlockchain ==
    /\ pc = "import_blockchain"
    /\ globals' = set_global(globals, "blockchain_enabled",
                             ~import_blockchain_interface(call.env).raised)
    /\ pc' = "init_reasoner"
    /\ UNCHANGED <<disasters, taken, analyses, errors, call, ret, locals,
                   sent, chain>>

\* lines 102-105, outside any try: an exception of the constructor ends the
\* process
InitReasoner ==
    /\ pc = "init_reasoner"
    /\ IF globals.metta_enabled
       THEN LET made == MettaHumanitarianReasoner(
                            import_metta_reasoner(call.env).value)
            IN  IF made.raised
                THEN /\ pc' = "crashed"
                     /\ ret' = made
                     /\ UNCHANGED globals
                ELSE /\ pc' = "running"
                     /\ globals' = set_global(globals, "reasoner", made.value)
                     /\ UNCHANGED ret
       ELSE /\ pc' = "running"
            /\ globals' = set_global(globals, "reasoner", None)
            /\ UNCHANGED ret
    /\ UNCHANGED <<disasters, taken, analyses, errors, call, locals, sent,
                   chain>>

----------------------------------------------------------------------------
(* aidroute_agent.py: the chat protocol.  A handler's reply is kept as the
   first line of its message and the keys of the dict it returns; fails
   says whether a call inside the handler's try block raises *)

\* the keyword lists of handle_chat, in the order of its if/elif chain
chat_intents ==
    <<[words |-> {s_create, s_new, s_start, s_mission},
       handler |-> "handle_mission_creation_intent"],
      [words |-> {s_status, s_check, s_how, s_progress},
       handler |-> "handle_status_query"],
      [words |-> {s_donate, s_fund, s_contribute, s_help},
       handler |-> "handle_donation_intent"],
      [words |-> {s_suggest, s_recommend, s_optimize, s_plan},
       handler |-> "handle_optimization_request"],
      [words |-> {s_hello, s_hi, s_help, s_what},
       handler |-> "handle_greeting"]>>

\* variant: a chain of independent `if`s, every matching branch runs
matched_handlers_all(user_message) ==
    LET matching == SelectSeq(chat_intents,
                              LAMBDA c : AnyIn(c.words, user_message))
    IN  IF matching = <<>> THEN <<"handle_general_query">>
        ELSE [i \in DOMAIN matching |-> matching[i].handler]

\* the handlers the if/elif/else chain of handle_chat invokes: the first
\* branch whose test holds, the else branch when none does
matched_handlers(user_message) ==
    LET matching == SelectSeq(chat_intents,
                              LAMBDA c : AnyIn(c.words, user_message))
    IN  IF matching = <<>> THEN <<"handle_general_query">>
        ELSE <<matching[1].handler>>

handle_mission_creation_intent ==
    [message |-> "I can help you create a humanitarian mission!",
     suggestions |-> 4]

handle_status_query(g, fails) ==
    IF g.blockchain_enabled /\ ~fails
    THEN [message |-> "AidRoute System Status", data |-> "stats"]
    ELSE [message |-> "I can check mission status for you!",
          suggestions |-> 3]

handle_donation_intent ==
    [message |-> "How to Donate to AidRoute", suggestions |-> 4]

handle_optimization_request(g, message, fails) ==
    IF g.metta_enabled /\ g.reasoner # None /\ ~fails
    THEN [message |-> "AI-Optimized Mission Plan",
          data |-> optimize_mission_plan(message), suggestions |-> 4]
    ELSE [message |-> "I can help optimize your humanitarian mission!",
          suggestions |-> 4]

handle_greeting == [message |-> "Welcome to AidRoute!", suggestions |-> 5]

handle_general_query(g, message, fails) ==
    IF g.metta_enabled /\ g.reasoner # None /\ ~fails
    THEN [message |-> query_knowledge(message).answer,
          data |-> query_knowledge(message).knowledge,
          suggestions |-> query_knowledge(message).related_queries]
    ELSE [message |-> "I understand you're asking", suggestions |-> 4]

\* the call of one handler
run_handler(handler, g, message, fails) ==
    CASE handler = "handle_mission_creation_intent" ->
             handle_mission_creation_intent
      [] handler = "handle_status_query" -> handle_status_query(g, fails)
      [] handler = "handle_donation_intent" -> handle_donation_intent
      [] handler = "handle_optimization_request" ->
             handle_optimization_request(g, message, fails)
      [] handler = "handle_greeting" -> handle_greeting
      [] handler = "handle_general_query" ->
             handle_general_query(g, message, fails)

\* whether the handler enters a try block, where a failure is caught and
\* written to the log
has_try_block(handler, g) ==
    \/ handler = "handle_status_query" /\ g.blockchain_enabled
    \/ /\ handler \in {"handle_optimization_request", "handle_general_query"}
       /\ g.metta_enabled
       /\ g.reasoner # None

\* handle_chat, lines 117-138: the message is lower-cased, the chain picks
\* the handler, the handler's dict is bound to `response`
ChatDispatch ==
    /\ pc = "running"
    /\ \E fails \in BOOLEAN, user_message \in {Lower(call.msg.message)} :
       \E handlers \in {matched_handlers(user_message)} :
       \E response \in {run_handler(handlers[Len(handlers)], globals,
                                    call.msg.message, fails)} :
        /\ locals' = [handlers |-> handlers, response |-> response]
        /\ errors' =
               IF fails /\ has_try_block(handlers[Len(handlers)], globals)
               THEN Append(errors, handlers[Len(handlers)])
               ELSE errors
    /\ pc' = "send"
    /\ UNCHANGED <<disasters, taken, analyses, call, ret, globals, sent,
                   chain>>

\* handle_chat, lines 140-144: await ctx.send(sender, ChatResponse(...))
ChatSend ==
    /\ pc = "send"
    /\ sent' = Append(sent,
                      [to |-> call.sender, model |-> "ChatResponse",
                       message |-> locals.response.message,
                       mission_data |-> Get(locals.response, "data", None),
                       suggestions |->
                           Get(locals.response, "suggestions", None)])
    /\ pc' = "idle"
    /\ UNCHANGED <<disasters, taken, analyses, errors, call, ret, locals,
                   globals, chain>>

----------------------------------------------------------------------------
(* Inputs *)

t_Gaza == <<"G", "a", "z", "a">>

t_GAZA == <<"G", "A", "Z", "A">>

t_Gaza_Strip == <<"G", "a", "z", "a", " ", "S", "t", "r", "i", "p">>

t_Syria == <<"S", "y", "r", "i", "a">>

t_Sudan == <<"S", "u", "d", "a", "n">>

t_Unknown_Town == <<"U", "n", "k", "n", "o", "w", "n", " ", "T", "o", "w", "n">>

t_CRITICAL == <<"C", "R", "I", "T", "I", "C", "A", "L">>

t_Urgent == <<"U", "r", "g", "e", "n", "t">>

t_High == <<"H", "i", "g", "h">>

t_severe == <<"s", "e", "v", "e", "r", "e">>

t_Earthquake == <<"E", "a", "r", "t", "h", "q", "u", "a", "k", "e">>

t_Flood == <<"F", "l", "o", "o", "d">>

t_Land_Slide == <<"L", "a", "n", "d", " ", "S", "l", "i", "d", "e">>

MaxShortBatch == 3

MaxBatch == 11

MaxScoredBatch == 3

MaxNegSeverity == 2

MaxSeverity == 6

MaxTotalSteps == 30

MaxBeneficiaries == 3

MaxSupplies == 2

MaxQuantity == 2

Dict(items) == [type |-> "dict", items |-> items]

\* well-formed records: every field present, or fields left to their defaults
ValidRecords ==
    {Dict([eventType |-> "EQ", typeName |-> t_Earthquake, location |-> t_Gaza,
           severity |-> 5, urgency |-> s_critical, title |-> "M7 quake",
           description |-> "d1"]),
     Dict([eventType |-> "FL", typeName |-> t_Flood,
           location |-> t_Unknown_Town, severity |-> 2, urgency |-> s_medium,
           title |-> "River flood", description |-> "d2"]),
     Dict([eventType |-> "LS", typeName |-> t_Land_Slide,
           location |-> t_Syria, severity |-> 3, urgency |-> t_High,
           title |-> "Land slide", description |-> "d3"]),
     Dict([title |-> "Bare alert"])}

\* records analyze_single_disaster cannot read: not a dict, typeName not text
MalformedRecords ==
    {[type |-> "NoneType"],
     Dict([eventType |-> "EQ", typeName |-> None, location |-> t_Gaza,
           severity |-> 4, urgency |-> s_urgent, title |-> "No type name",
           description |-> "d4"])}

Records == ValidRecords \cup MalformedRecords

RecordCycle ==
    <<Dict([eventType |-> "FL", typeName |-> t_Flood,
            location |-> t_Unknown_Town, severity |-> 2, urgency |-> s_medium,
            title |-> "River flood", description |-> "d2"]),
      [type |-> "NoneType"],
      Dict([eventType |-> "EQ", typeName |-> t_Earthquake,
            location |-> t_Gaza, severity |-> 5, urgency |-> s_critical,
            title |-> "M7 quake", description |-> "d1"])>>

\* every batch of up to MaxShortBatch records, and longer batches around
\* the limit of ten
Batches ==
    UNION {[1..n -> Records] : n \in 0..MaxShortBatch}
    \cup {[i \in 1..n |-> RecordCycle[((i + k) % Len(RecordCycle)) + 1]] :
            n \in (MaxShortBatch + 1)..MaxBatch, k \in 0..2}

Init ==
    /\ pc = "loop"
    /\ disasters \in Batches
    /\ taken = <<>>
    /\ analyses = <<>>
    /\ errors = <<>>
    /\ call = [fn |-> "analyze_disasters"]
    /\ ret = NoRet
    /\ locals = <<>>
    /\ globals = <<>>
    /\ sent = <<>>
    /\ chain = <<>>

Next == AnalyzeNext \/ SortAndReturn

Spec == Init /\ [][Next]_vars

----------------------------------------------------------------------------
(* analyses.sort(...) on the lists the loop can hand to it *)

\* an analysis, reduced to the record it is about and the key of the sort
ScoredAnalyses ==
    {[disaster |-> r.items, priority_score |-> p] :
        r \in {x \in ValidRecords : "severity" \in DOMAIN x.items},
        p \in {25, 60}}

InitSort ==
    /\ pc = "loop"
    /\ analyses \in UNION {[1..n -> ScoredAnalyses] : n \in 0..MaxScoredBatch}
    /\ disasters = [i \in DOMAIN analyses |-> Dict(analyses[i].disaster)]
    /\ taken = disasters
    /\ errors = <<>>
    /\ call = [fn |-> "sort", analyses |-> analyses]
    /\ ret = NoRet
    /\ locals = <<>>
    /\ globals = <<>>
    /\ sent = <<>>
    /\ chain = <<>>

SpecSort == InitSort /\ [][SortAndReturn]_vars

----------------------------------------------------------------------------
(* _calculate_priority_score on drawn arguments *)

\* severities from -MaxNegSeverity, below the 1-5 scale, to MaxSeverity, above it
Severities == (0 - MaxNegSeverity)..MaxSeverity

Urgencies ==
    {s_critical, t_CRITICAL, s_urgent, t_Urgent, s_high, s_medium, s_low,
     t_severe}

EfficiencyScores == 0..100

InitPriority ==
    /\ pc = "call"
    /\ call \in [fn : {"_calculate_priority_score"}, severity : Severities,
                 urgency : Urgencies, efficiency_score : EfficiencyScores]
    /\ ret = NoRet
    /\ disasters = <<>>
    /\ taken = <<>>
    /\ analyses = <<>>
    /\ errors = <<>>
    /\ locals = <<>>
    /\ globals = <<>>
    /\ sent = <<>>
    /\ chain = <<>>

CalcPriority ==
    /\ pc = "call"
    /\ call.fn = "_calculate_priority_score"
    /\ ret' = Returned(_calculate_priority_score(
                  call.severity, call.urgency,
                  [efficiency_score |-> call.efficiency_score]))
    /\ pc' = "done"
    /\ UNCHANGED <<disasters, taken, analyses, errors, call, locals,
                 globals, sent, chain>>

SpecPriority == InitPriority /\ [][CalcPriority]_vars

----------------------------------------------------------------------------
(* _calculate_efficiency on drawn arguments *)

\* totals in cents, in steps of ten dollars
Totals == {1000 * k : k \in 0..MaxTotalSteps}

InitEfficiency ==
    /\ pc = "call"
    /\ call \in [fn : {"_calculate_efficiency"}, total : Totals,
                 beneficiaries : 0..MaxBeneficiaries]
    /\ ret = NoRet
    /\ disasters = <<>>
    /\ taken = <<>>
    /\ analyses = <<>>
    /\ errors = <<>>
    /\ locals = <<>>
    /\ globals = <<>>
    /\ sent = <<>>
    /\ chain = <<>>

CalcEfficiency ==
    /\ pc = "call"
    /\ call.fn = "_calculate_efficiency"
    /\ ret' = Returned(_calculate_efficiency(
                  [total |-> call.total],
                  [beneficiaries |-> call.beneficiaries]))
    /\ pc' = "done"
    /\ UNCHANGED <<disasters, taken, analyses, errors, call, locals,
                 globals, sent, chain>>

SpecEfficiency == InitEfficiency /\ [][CalcEfficiency]_vars

----------------------------------------------------------------------------
(* _estimate_costs on drawn arguments *)

SupplyLines ==
    {[name |-> c, code |-> c, quantity |-> q] :
        c \in {"medical-kit-basic", "clothing-package-adult", "blanket"},
        q \in 0..MaxQuantity}

SupplyLists == UNION {[1..n -> SupplyLines] : n \in 0..MaxSupplies}

Locations ==
    {None, <<>>, t_Gaza, t_GAZA, t_Gaza_Strip, s_syria, t_Sudan,
     t_Unknown_Town}

InitCosts ==
    /\ pc = "call"
    /\ call \in [fn : {"_estimate_costs"}, supplies : SupplyLists,
                 location : Locations]
    /\ ret = NoRet
    /\ disasters = <<>>
    /\ taken = <<>>
    /\ analyses = <<>>
    /\ errors = <<>>
    /\ locals = <<>>
    /\ globals = <<>>
    /\ sent = <<>>
    /\ chain = <<>>

EstimateCosts ==
    /\ pc = "call"
    /\ call.fn = "_estimate_costs"
    /\ ret' = Returned(_estimate_costs(call.supplies, call.location))
    /\ pc' = "done"
    /\ UNCHANGED <<disasters, taken, analyses, errors, call, locals,
                 globals, sent, chain>>

SpecCosts == InitCosts /\ [][EstimateCosts]_vars

----------------------------------------------------------------------------
(* _estimate_impact on drawn arguments *)

InitImpact ==
    /\ pc = "call"
    /\ call \in [fn : {"_estimate_impact"}, supplies : SupplyLists]
    /\ ret = NoRet
    /\ disasters = <<>>
    /\ taken = <<>>
    /\ analyses = <<>>
    /\ errors = <<>>
    /\ locals = <<>>
    /\ globals = <<>>
    /\ sent = <<>>
    /\ chain = <<>>

EstimateImpact ==
    /\ pc = "call"
    /\ call.fn = "_estimate_impact"
    /\ ret' = Returned(_estimate_impact(call.supplies))
    /\ pc' = "done"
    /\ UNCHANGED <<disasters, taken, analyses, errors, call, locals,
                 globals, sent, chain>>

SpecImpact == InitImpact /\ [][EstimateImpact]_vars

----------------------------------------------------------------------------
(* _recommend_supplies on drawn arguments *)

\* the types _parse_mission_intent can produce, and crisis categories of the
\* prioritizer that have no branch in _recommend_supplies
MissionTypes ==
    {"medical-emergency", "food-security", "water-crisis", "shelter",
     "general", "earthquake", "flood"}

IntentUrgencies == {s_normal, s_urgent, s_critical, s_medium}

IntentLocations == {None, t_Gaza, t_Gaza_Strip, s_syria, t_Unknown_Town}

\* intent dicts, with and without the key "type"
Intents ==
    [type : MissionTypes, urgency : IntentUrgencies,
     location : IntentLocations, needs : {<<>>}]
    \cup [urgency : IntentUrgencies, location : IntentLocations,
          needs : {<<>>}]

InitSupplies ==
    /\ pc = "call"
    /\ call \in [fn : {"_recommend_supplies"}, intent : Intents]
    /\ ret = NoRet
    /\ disasters = <<>>
    /\ taken = <<>>
    /\ analyses = <<>>
    /\ errors = <<>>
    /\ locals = <<>>
    /\ globals = <<>>
    /\ sent = <<>>
    /\ chain = <<>>

RecommendSupplies ==
    /\ pc = "call"
    /\ call.fn = "_recommend_supplies"
    /\ ret' = Returned(_recommend_supplies(call.intent))
    /\ pc' = "done"
    /\ UNCHANGED <<disasters, taken, analyses, errors, call, locals,
                 globals, sent, chain>>

SpecSupplies == InitSupplies /\ [][RecommendSupplies]_vars

----------------------------------------------------------------------------
(* _identify_risk_factors on drawn arguments *)

t_Syria_Gaza == <<"S", "y", "r", "i", "a", "/", "G", "a", "z", "a">>

RiskLocations ==
    {t_Gaza, t_GAZA, t_Gaza_Strip, t_Syria_Gaza, s_haiti, s_afghanistan,
     t_Sudan, t_Unknown_Town}

InitRisk ==
    /\ pc = "call"
    /\ call \in [fn : {"_identify_risk_factors"}, location : RiskLocations,
                 urgency : Urgencies, severity : Severities]
    /\ ret = NoRet
    /\ disasters = <<>>
    /\ taken = <<>>
    /\ analyses = <<>>
    /\ errors = <<>>
    /\ locals = <<>>
    /\ globals = <<>>
    /\ sent = <<>>
    /\ chain = <<>>

IdentifyRisks ==
    /\ pc = "call"
    /\ call.fn = "_identify_risk_factors"
    /\ ret' = Returned(_identify_risk_factors(call.location, call.urgency,
                                              call.severity))
    /\ pc' = "done"
    /\ UNCHANGED <<disasters, taken, analyses, errors, call, locals,
                 globals, sent, chain>>

SpecRisk == InitRisk /\ [][IdentifyRisks]_vars

----------------------------------------------------------------------------
(* optimize_mission_plan as its callers call it *)

\* "Critical earthquake in Gaza"
d_quake_gaza ==
    <<"C", "r", "i", "t", "i", "c", "a", "l", " ", "e", "a", "r", "t", "h",
      "q", "u", "a", "k", "e", " ", "i", "n", " ", "G", "a", "z", "a">>

\* "Water crisis in Unknown Town"
d_water_town ==
    <<"W", "a", "t", "e", "r", " ", "c", "r", "i", "s", "i", "s", " ", "i",
      "n", " ", "U", "n", "k", "n", "o", "w", "n", " ", "T", "o", "w", "n">>

\* "food for Syria"
d_food_syria ==
    <<"f", "o", "o", "d", " ", "f", "o", "r", " ", "S", "y", "r", "i", "a">>

\* "Medical aid"
d_medical ==
    <<"M", "e", "d", "i", "c", "a", "l", " ", "a", "i", "d">>

\* "tents"
d_tents ==
    <<"t", "e", "n", "t", "s">>

Descriptions == {d_quake_gaza, d_water_town, d_food_syria, d_medical, d_tents}

CrisisLocations == {t_Gaza, t_Gaza_Strip, s_syria, t_Unknown_Town, s_Unknown}

\* the keyword arguments of the three call sites: the prioritizer
\* (crisis_type, location, urgency), the HTTP handlers (the same and the
\* budget of a request that names none) and the chat handler (the
\* description alone)
PlannerCalls ==
    [crisis_type : MissionTypes, location : CrisisLocations,
     urgency : IntentUrgencies]
    \cup [crisis_type : MissionTypes, location : CrisisLocations,
          urgency : IntentUrgencies, budget : {None}]
    \cup [mission_description : Descriptions]

InitPlan ==
    /\ pc = "call"
    /\ call \in [fn : {"optimize_mission_plan"}, kwargs : PlannerCalls]
    /\ ret = NoRet
    /\ disasters = <<>>
    /\ taken = <<>>
    /\ analyses = <<>>
    /\ errors = <<>>
    /\ locals = <<>>
    /\ globals = <<>>
    /\ sent = <<>>
    /\ chain = <<>>

CallPlanner ==
    /\ pc = "call"
    /\ call.fn = "optimize_mission_plan"
    /\ ret' = call_optimize_mission_plan(call.kwargs)
    /\ pc' = "done"
    /\ UNCHANGED <<disasters, taken, analyses, errors, call, locals,
                 globals, sent, chain>>

SpecPlan == InitPlan /\ [][CallPlanner]_vars

----------------------------------------------------------------------------
(* analyze_single_disaster up to the call of the planner, on drawn records *)

\* a field of a record, or nothing more than the title when it is absent
Field(present, key, value) ==
    IF present THEN key :> value ELSE "title" :> "Alert"

\* records with known and unknown event codes, each of eventType,
\* typeName, severity and urgency present or absent
NormalizeRecords ==
    {("title" :> "Alert") @@ Field(pe, "eventType", e)
        @@ Field(pt, "typeName", t) @@ Field(ps, "severity", s)
        @@ Field(pu, "urgency", u) :
        pe \in BOOLEAN, pt \in BOOLEAN, ps \in BOOLEAN, pu \in BOOLEAN,
        e \in {"EQ", "TC", "FL", "VO", "WF", "DR", "LS", "eq"},
        t \in {t_Earthquake, t_Land_Slide}, s \in {1, 5},
        u \in {s_critical, t_High}}

InitNormalize ==
    /\ pc = "call"
    /\ call \in [fn : {"normalize"}, items : NormalizeRecords]
    /\ ret = NoRet
    /\ disasters = <<>>
    /\ taken = <<>>
    /\ analyses = <<>>
    /\ errors = <<>>
    /\ locals = <<>>
    /\ globals = <<>>
    /\ sent = <<>>
    /\ chain = <<>>

Normalize ==
    /\ pc = "call"
    /\ call.fn = "normalize"
    /\ ret' = normalize(call.items)
    /\ pc' = "done"
    /\ UNCHANGED <<disasters, taken, analyses, errors, call, locals,
                 globals, sent, chain>>

SpecNormalize == InitNormalize /\ [][Normalize]_vars

----------------------------------------------------------------------------
(* _generate_recommendation on drawn arguments *)

\* the plans the planner returns for the drawn descriptions
DrawnPlans == {optimize_mission_plan(d) : d \in Descriptions}

InitRecommend ==
    /\ pc = "call"
    /\ call \in [fn : {"_generate_recommendation"},
                 type_name : {t_Earthquake, t_Flood},
                 location : {t_Gaza, t_Unknown_Town},
                 urgency : Urgencies, mission_plan : DrawnPlans]
    /\ ret = NoRet
    /\ disasters = <<>>
    /\ taken = <<>>
    /\ analyses = <<>>
    /\ errors = <<>>
    /\ locals = <<>>
    /\ globals = <<>>
    /\ sent = <<>>
    /\ chain = <<>>

GenerateRecommendation ==
    /\ pc = "call"
    /\ call.fn = "_generate_recommendation"
    /\ ret' = Returned(_generate_recommendation(
                  call.type_name, call.location, call.urgency,
                  call.mission_plan))
    /\ pc' = "done"
    /\ UNCHANGED <<disasters, taken, analyses, errors, call, locals,
                 globals, sent, chain>>

SpecRecommend == InitRecommend /\ [][GenerateRecommendation]_vars

----------------------------------------------------------------------------
(* _estimate_timeline on drawn arguments *)

TimelineUrgencies == Urgencies \cup {s_normal}

TimelineLocations == Locations \cup {t_Syria, s_yemen}

InitTimeline ==
    /\ pc = "call"
    /\ call \in [fn : {"_estimate_timeline"}, urgency : TimelineUrgencies,
                 location : TimelineLocations]
    /\ ret = NoRet
    /\ disasters = <<>>
    /\ taken = <<>>
    /\ analyses = <<>>
    /\ errors = <<>>
    /\ locals = <<>>
    /\ globals = <<>>
    /\ sent = <<>>
    /\ chain = <<>>

EstimateTimeline ==
    /\ pc = "call"
    /\ call.fn = "_estimate_timeline"
    /\ ret' = Returned(_estimate_timeline(call.urgency, call.location))
    /\ pc' = "done"
    /\ UNCHANGED <<disasters, taken, analyses, errors, call, locals,
                 globals, sent, chain>>

SpecTimeline == InitTimeline /\ [][EstimateTimeline]_vars

----------------------------------------------------------------------------
(* concurrent calls on drawn arguments *)

MaxProcs == 2

MaxConcurrentBatch == 1

Procs == 1..MaxProcs

ConcurrentBatches ==
    UNION {[1..n -> {RecordCycle[1], RecordCycle[2]}] :
              n \in 0..MaxConcurrentBatch}

\* the calls that can run at once: analyze_disasters on the shared batch,
\* the planner with a description, the planner as the prioritizer calls it
ConcurrentCalls(batch) ==
    {[fn |-> "analyze_disasters", disasters |-> batch]}
    \cup {[fn |-> "optimize_mission_plan", kwargs |-> k] :
            k \in {[mission_description |-> d_medical],
                   [mission_description |-> d_quake_gaza],
                   [crisis_type |-> "earthquake", location |-> t_Gaza,
                    urgency |-> s_critical]}}

InitConcurrent ==
    /\ disasters \in ConcurrentBatches
    /\ call \in [Procs -> ConcurrentCalls(disasters)]
    /\ pc = [p \in Procs |->
                IF call[p].fn = "analyze_disasters" THEN "loop" ELSE "bind"]
    /\ taken = [p \in Procs |-> <<>>]
    /\ analyses = [p \in Procs |-> <<>>]
    /\ errors = <<>>
    /\ ret = [p \in Procs |-> NoRet]
    /\ locals = [p \in Procs |-> NoLocals]
    /\ globals = <<>>
    /\ sent = <<>>
    /\ chain = <<>>

NextConcurrent ==
    \E p \in Procs :
        \/ ConcAnalyzeNext(p)
        \/ ConcSortAndReturn(p)
        \/ PlanBind(p)
        \/ PlanParse(p)
        \/ PlanSupplies(p)
        \/ PlanReturn(p)

SpecConcurrent == InitConcurrent /\ [][NextConcurrent]_vars

----------------------------------------------------------------------------
(* The agent process: start-up, then one ChatRequest *)

\* "help"
m_help == <<"h", "e", "l", "p">>

\* "HELP"
m_HELP == <<"H", "E", "L", "P">>

\* "Hello there"
m_hello == <<"H", "e", "l", "l", "o", " ", "t", "h", "e", "r", "e">>

\* "Create a mission in Gaza"
m_create ==
    <<"C", "r", "e", "a", "t", "e", " ", "a", " ", "m", "i", "s", "s", "i",
      "o", "n", " ", "i", "n", " ", "G", "a", "z", "a">>

\* "check status"
m_status == <<"c", "h", "e", "c", "k", " ", "s", "t", "a", "t", "u", "s">>

\* "I want to donate"
m_donate ==
    <<"I", " ", "w", "a", "n", "t", " ", "t", "o", " ", "d", "o", "n", "a",
      "t", "e">>

\* "Optimize aid for Gaza"
m_optimize ==
    <<"O", "p", "t", "i", "m", "i", "z", "e", " ", "a", "i", "d", " ", "f",
      "o", "r", " ", "G", "a", "z", "a">>

\* "what crisis types"
m_what ==
    <<"w", "h", "a", "t", " ", "c", "r", "i", "s", "i", "s", " ", "t", "y",
      "p", "e", "s">>

\* "thanks"
m_thanks == <<"t", "h", "a", "n", "k", "s">>

\* "show"
m_show == <<"s", "h", "o", "w">>

\* "this"
m_this == <<"t", "h", "i", "s">>

ChatMessages ==
    {m_help, m_HELP, m_hello, m_create, m_status, m_donate,
     m_optimize, m_what, m_thanks, m_show, m_this}

\* the environments the module aidroute_agent.py is loaded in
Environments ==
    [launched_as : {"script", "package"},
     hyperon_installed : BOOLEAN,
     rpc_connected : BOOLEAN]

Senders == {"agent1qalice", "agent1qbob"}

InitAgent ==
    /\ pc = "import_metta"
    /\ call \in [env : Environments,
                 msg : [message : ChatMessages],
                 sender : Senders]
    /\ ret = NoRet
    /\ disasters = <<>>
    /\ taken = <<>>
    /\ analyses = <<>>
    /\ errors = <<>>
    /\ locals = <<>>
    /\ globals = <<>>
    /\ sent = <<>>
    /\ chain = <<>>

NextAgent ==
    \/ ImportMetta
    \/ ImportBlockchain
    \/ InitReasoner
    \/ ChatDispatch
    \/ ChatSend

SpecAgent == InitAgent /\ [][NextAgent]_vars

\* the interpreter runs the module to its end and uagents runs a handler to
\* its end once the message is delivered
SpecAgentFair == InitAgent /\ [][NextAgent]_vars /\ WF_vars(NextAgent)

----------------------------------------------------------------------------
(* validate_mission as a function of the mission data *)

\* the dicts with the key, one for each value, and the dict without it
WithKey(key, values) == {<<>>} \cup {key :> v : v \in values}

ValidateLocations == {<<>>, t_Gaza, t_Syria}

ValidateGoals == {-1, 0, 1, 500, 1000000, 1000001}

ValidateItems ==
    {<<>>, <<"medical-kit-basic">>,
     <<"food-package-family", "water-purification-kit">>}

MissionDatas ==
    {l @@ g @@ i : l \in WithKey("location", ValidateLocations),
                   g \in WithKey("funding_goal", ValidateGoals),
                   i \in WithKey("items", ValidateItems)}

InitValidate ==
    /\ pc = "call"
    /\ call \in [fn : {"validate_mission"}, mission_data : MissionDatas]
    /\ ret = NoRet
    /\ disasters = <<>>
    /\ taken = <<>>
    /\ analyses = <<>>
    /\ errors = <<>>
    /\ locals = <<>>
    /\ globals = <<>>
    /\ sent = <<>>
    /\ chain = <<>>

\* the call; locals keeps the caller's dict as it is once the call is over
ValidateMission ==
    /\ pc = "call"
    /\ call.fn = "validate_mission"
    /\ ret' = Returned(validate_mission(call.mission_data))
    /\ locals' = [mission_data |-> call.mission_data]
    /\ pc' = "done"
    /\ UNCHANGED <<disasters, taken, analyses, errors, call, globals, sent,
                   chain>>

SpecValidate == InitValidate /\ [][ValidateMission]_vars

----------------------------------------------------------------------------
(* The mission protocol: one MissionRequest or MissionQuery handled by a
   running agent, with other creators using the same contract *)

\* the most missions the contract holds
MaxChainMissions == 2

MissionLocations == {t_Gaza, t_Syria}

\* the module globals of an agent that got through start-up
RunningGlobals ==
    {[metta_enabled |-> FALSE, blockchain_enabled |-> FALSE,
      reasoner |-> None],
     [metta_enabled |-> TRUE, blockchain_enabled |-> FALSE,
      reasoner |-> <<"MettaHumanitarianReasoner">>],
     [metta_enabled |-> TRUE, blockchain_enabled |-> TRUE,
      reasoner |-> <<"MettaHumanitarianReasoner">>]}

----------------------------------------------------------------------------
(* blockchain_interface.py: the contract as the agent sees it.  chain is
   the state of the AidRouteMissions contract: missions, the missions in
   the order of their ids 1, 2, ..., each with the transaction that created
   it *)

\* _format_status(0)
s_Pending == <<"P", "e", "n", "d", "i", "n", "g">>

\* getStats()[0]
total_missions(c) == Len(c.missions)

\* the contract executes a createMission transaction: a successful one
\* appends the mission under the next id, a reverted one changes nothing
\* (status is the status field of the receipt)
execute_createMission(c, tx_hash, location, status) ==
    IF status = 1
    THEN [c EXCEPT !.missions =
              Append(@, [id |-> Len(@) + 1, location |-> location,
                         status |-> s_Pending, tx |-> tx_hash])]
    ELSE c

\* the filters of get_missions, lines 147-158, for the mission with id i
passes_filters(mission, i, query) ==
    /\ ~(~not_get(query, "mission_id", 0) /\ i # query["mission_id"])
    /\ ~(/\ ~not_get(query, "location", <<>>)
         /\ ~Contains(Lower(mission.location), Lower(query["location"])))
    /\ ~(/\ ~not_get(query, "status", <<>>)
         /\ Lower(mission.status) # Lower(query["status"]))

\* get_missions: readable is the set of ids whose getMission call answers
\* (get_mission returns None for the others and the loop skips them);
\* stats_ok is whether getStats answers (the except clause keeps the list
\* empty when it does not)
get_missions(c, query, stats_ok, readable) ==
    IF ~stats_ok THEN <<>>
    ELSE SelectSeq(c.missions,
                   LAMBDA mission : /\ mission.id \in readable
                                    /\ passes_filters(mission, mission.id,
                                                      query))

----------------------------------------------------------------------------
(* aidroute_agent.py: the mission protocol.  call holds the message, its
   sender and has_account (whether PRIVATE_KEY gave the interface an
   account); locals holds the handler's local variables *)

\* the transaction hash of the request's own transaction
own_tx == "0xa1"

\* variant: the handler goes on to the ledger after the failure reply
returns_after_validation_never(validation) == FALSE

\* `if not validation['is_valid']: ...; return`
returns_after_validation(validation) == ~validation.is_valid

\* MissionResponse(...) sent to the requester
MissionResponse(to, success, mission_id, message, transaction_hash) ==
    [to |-> to, model |-> "MissionResponse", success |-> success,
     mission_id |-> mission_id, message |-> message,
     transaction_hash |-> transaction_hash]

\* the dict the handler hands to validate_mission
mission_data_of(msg) ==
    [location |-> msg.location, description |-> msg.description,
     items |-> msg.items, funding_goal |-> msg.funding_goal]

\* lines 393-409: the branch on blockchain_enabled and the validation
MissionReceive ==
    /\ pc = "received"
    /\ call.model = "MissionRequest"
    /\ IF ~globals.blockchain_enabled
       THEN /\ sent' = Append(sent,
                         MissionResponse(call.sender, FALSE, None,
                             <<"Blockchain interface not available">>, None))
            /\ pc' = "done"
            /\ UNCHANGED locals
       ELSE IF globals.metta_enabled /\ globals.reasoner # None
       THEN \E validation \in {validate_mission(mission_data_of(call.msg))} :
              /\ locals' = [validation |-> validation]
              /\ sent' = IF ~validation.is_valid
                         THEN Append(sent,
                                  MissionResponse(call.sender, FALSE, None,
                                      <<"Mission validation failed",
                                        validation.reason>>, None))
                         ELSE sent
              /\ pc' = IF returns_after_validation(validation)
                       THEN "done" ELSE "ledger"
       ELSE /\ pc' = "ledger"
            /\ UNCHANGED <<locals, sent>>
    /\ UNCHANGED <<disasters, taken, analyses, errors, call, ret, globals,
                   chain>>

\* the except clause of the handler, lines 430-435
mission_failed(exc) ==
    /\ errors' = Append(errors, <<"Mission creation failed", exc>>)
    /\ sent' = Append(sent,
                  MissionResponse(call.sender, FALSE, None,
                                  <<"Failed to create mission", exc>>, None))
    /\ pc' = "done"

\* blockchain.create_mission, lines 180-201: without an account it raises;
\* building, signing or sending the transaction may raise; otherwise the
\* transaction is on its way
LedgerSend ==
    /\ pc = "ledger"
    /\ \/ /\ ~call.has_account
          /\ mission_failed("No account configured")
          /\ UNCHANGED locals
       \/ /\ call.has_account
          /\ \E sends \in BOOLEAN :
               IF sends
               THEN /\ locals' = ("tx_hash" :> own_tx) @@ locals
                    /\ pc' = "tx_sent"
                    /\ UNCHANGED <<errors, sent>>
               ELSE /\ mission_failed("send_raw_transaction")
                    /\ UNCHANGED locals
    /\ UNCHANGED <<disasters, taken, analyses, call, ret, globals, chain>>

\* line 204: the transaction is mined, successfully or reverted, and
\* wait_for_transaction_receipt returns its receipt, whose status the code
\* does not read
LedgerMine ==
    /\ pc = "tx_sent"
    /\ \E status \in {0, 1} :
         /\ chain' = execute_createMission(chain, locals["tx_hash"],
                                           call.msg.location, status)
         /\ locals' = ("receipt" :> [status |-> status]) @@ locals
    /\ pc' = "tx_mined"
    /\ UNCHANGED <<disasters, taken, analyses, errors, call, ret, globals,
                   sent>>

\* another creator's createMission transaction is mined on the same contract
OtherCreatorMines ==
    /\ pc \in {"received", "ledger", "tx_sent", "tx_mined", "created"}
    /\ call.model = "MissionRequest"
    /\ Len(chain.missions) < MaxChainMissions
    /\ \E location \in MissionLocations :
         chain' = execute_createMission(chain, "0xb2", location, 1)
    /\ UNCHANGED <<pc, disasters, taken, analyses, errors, call, ret, locals,
                   globals, sent>>

\* lines 207-210: the mission id is read from getStats and returned with
\* the hash
LedgerReadStats ==
    /\ pc = "tx_mined"
    /\ \E stats_ok \in BOOLEAN :
         IF stats_ok
         THEN /\ locals' = ("mission_id" :> total_missions(chain)) @@ locals
              /\ pc' = "created"
              /\ UNCHANGED <<errors, sent>>
         ELSE /\ mission_failed("getStats")
              /\ UNCHANGED locals
    /\ UNCHANGED <<disasters, taken, analyses, call, ret, globals, chain>>

\* lines 420-428: the success reply
MissionReply ==
    /\ pc = "created"
    /\ sent' = Append(sent,
                  MissionResponse(call.sender, TRUE, locals["mission_id"],
                                  <<"Mission created successfully",
                                    locals["mission_id"], call.msg.location>>,
                                  locals["tx_hash"]))
    /\ pc' = "done"
    /\ UNCHANGED <<disasters, taken, analyses, errors, call, ret, locals,
                   globals, chain>>

\* query_missions, lines 448-474: with the interface enabled the missions
\* are read and one MissionInfo is sent; there is no else branch
QueryMissions ==
    /\ pc = "received"
    /\ call.model = "MissionQuery"
    /\ IF globals.blockchain_enabled
       THEN \E stats_ok \in BOOLEAN, readable \in SUBSET (1..MaxChainMissions) :
            \E missions \in {get_missions(chain, call.msg, stats_ok,
                                          readable)} :
              sent' = Append(sent,
                         [to |-> call.sender, model |-> "MissionInfo",
                          missions |-> missions,
                          total_count |-> Len(missions),
                          summary |->
                              [found |-> Len(missions),
                               location |->
                                   IF ~not_get(call.msg, "location", <<>>)
                                   THEN call.msg["location"] ELSE <<>>,
                               status |->
                                   IF ~not_get(call.msg, "status", <<>>)
                                   THEN call.msg["status"] ELSE <<>>]])
       ELSE UNCHANGED sent
    /\ pc' = "done"
    /\ UNCHANGED <<disasters, taken, analyses, errors, call, ret, locals,
                   globals, chain>>

----------------------------------------------------------------------------
(* The specifications of the mission protocol *)

\* the contract before the request: missions other creators made
InitialChains ==
    {[missions |-> <<>>],
     [missions |-> <<[id |-> 1, location |-> t_Gaza_Strip,
                      status |-> s_Pending, tx |-> "0xb1"]>>]}

MissionRequests ==
    [location : {<<>>, t_Gaza},
     description : {t_Flood},
     items : {<<>>, <<"medical-kit-basic">>},
     funding_goal : {0, 500, 1000001}]

InitMission ==
    /\ pc = "received"
    /\ call \in [model : {"MissionRequest"}, msg : MissionRequests,
                 sender : Senders, has_account : BOOLEAN]
    /\ globals \in RunningGlobals
    /\ chain \in InitialChains
    /\ ret = NoRet
    /\ disasters = <<>>
    /\ taken = <<>>
    /\ analyses = <<>>
    /\ errors = <<>>
    /\ locals = <<>>
    /\ sent = <<>>

NextMission ==
    \/ MissionReceive
    \/ LedgerSend
    \/ LedgerMine
    \/ OtherCreatorMines
    \/ LedgerReadStats
    \/ MissionReply

SpecMission == InitMission /\ [][NextMission]_vars

\* "pending", "GAZA": the filters are matched without regard to case
t_pending == <<"p", "e", "n", "d", "i", "n", "g">>

t_Funded == <<"F", "u", "n", "d", "e", "d">>

QueryChains ==
    {[missions |-> <<>>],
     [missions |-> <<[id |-> 1, location |-> t_Gaza_Strip,
                      status |-> s_Pending, tx |-> "0xb1"],
                     [id |-> 2, location |-> t_Syria,
                      status |-> t_Funded, tx |-> "0xb2"]>>]}

MissionQueries ==
    {i @@ l @@ s : i \in WithKey("mission_id", {0, 1, 2}),
                   l \in WithKey("location", {<<>>, t_GAZA}),
                   s \in WithKey("status", {t_pending})}

InitQuery ==
    /\ pc = "received"
    /\ call \in [model : {"MissionQuery"}, msg : MissionQueries,
                 sender : Senders]
    /\ globals \in RunningGlobals
    /\ chain \in QueryChains
    /\ ret = NoRet
    /\ disasters = <<>>
    /\ taken = <<>>
    /\ analyses = <<>>
    /\ errors = <<>>
    /\ locals = <<>>
    /\ sent = <<>>

SpecQuery == InitQuery /\ [][QueryMissions]_vars

\* uagents runs the handler of a delivered message to its end
SpecQueryFair == InitQuery /\ [][QueryMissions]_vars /\ WF_vars(QueryMissions)

----------------------------------------------------------------------------
(* Properties *)

\* round(n / d) for an exact rational n / d with n >= 0, d > 0:
\* nearest integer, ties to the even neighbour (Python 3)
RoundHalfEven(n, d) ==
    LET q == n \div d
        r == n % d
    IN  IF 2 * r < d THEN q
        ELSE IF 2 * r > d THEN q + 1
        ELSE IF q % 2 = 0 THEN q ELSE q + 1

\* the number of records of a batch that belong to a set
Count(batch, set) == Cardinality({i \in DOMAIN batch : batch[i] \in set})

\* C1: a batch of at most ten records holding N valid records and one
\* malformed record does not fail and returns exactly N analyses.
C1_IsolateAndContinue ==
    (/\ pc = "done"
     /\ call.fn = "analyze_disasters"
     /\ Len(disasters) <= 10
     /\ Count(disasters, MalformedRecords) = 1)
    => (/\ ~ret.raised
        /\ Len(ret.value) = Count(disasters, ValidRecords))

\* C2: the returned list is ordered by priority_score descending, and
\* analyses with equal priority_score keep the relative order they had
\* before the sort.
C2_SortedStable ==
    (pc = "done" /\ call.fn = "sort") =>
        LET inp == call.analyses
            out == ret.value
            n == Len(inp)
        IN  /\ Len(out) = n
            /\ \A i \in 1..(n - 1) :
                   out[i].priority_score >= out[i + 1].priority_score
            /\ \E p \in [1..n -> 1..n] :
                   /\ \A i, j \in 1..n : i # j => p[i] # p[j]
                   /\ \A i \in 1..n : out[i] = inp[p[i]]
                   /\ \A i, j \in 1..n :
                          (i < j /\ out[i].priority_score = out[j].priority_score)
                          => p[i] < p[j]

\* C2 witness: the sort moved a higher score ahead of a lower one, and the
\* list holds two different analyses with the same score.
C2_Witness ==
    /\ pc = "done"
    /\ call.fn = "sort"
    /\ ret.value # call.analyses
    /\ \E i, j \in DOMAIN call.analyses :
           /\ i < j
           /\ call.analyses[i] # call.analyses[j]
           /\ call.analyses[i].priority_score = call.analyses[j].priority_score

\* C3: the loop takes the earliest ten records of the batch, in input order,
\* and no others; the output has at most ten analyses and every analysis is
\* that of a record among the first ten.
C3_FirstTenOnly ==
    (pc = "done" /\ call.fn = "analyze_disasters") =>
        LET n == IF Len(disasters) <= 10 THEN Len(disasters) ELSE 10 IN
        /\ taken = [i \in 1..n |-> disasters[i]]
        /\ Len(ret.value) <= 10
        /\ Len(ret.value) + Len(errors) = n
        /\ \A k \in DOMAIN ret.value :
               \E i \in 1..n :
                   /\ disasters[i].type = "dict"
                   /\ ret.value[k].disaster.title
                          = Get(disasters[i].items, "title", "Disaster Event")

\* C3 witness: a batch of more than ten records has been processed.
C3_Witness ==
    /\ pc = "done"
    /\ call.fn = "analyze_disasters"
    /\ Len(disasters) > 10
    /\ Len(taken) = 10
    /\ disasters[11].type = "dict"

\* C4: the priority score is an integer in [0, 100] for every severity,
\* zero and negative ones included.
C4_PriorityInRange ==
    (pc = "done" /\ call.fn = "_calculate_priority_score") =>
        ret.value \in 0..100

\* C5: with urgency and efficiency score fixed, a higher severity never
\* scores lower.
C5_SeverityMonotone ==
    (pc = "done" /\ call.fn = "_calculate_priority_score") =>
        \A lower \in Severities :
            lower < call.severity =>
                _calculate_priority_score(
                    lower, call.urgency,
                    [efficiency_score |-> call.efficiency_score]) <= ret.value

\* C5 witness: a severity that scores strictly above the next lower one.
C5_Witness ==
    /\ pc = "done"
    /\ call.fn = "_calculate_priority_score"
    /\ call.severity - 1 \in Severities
    /\ _calculate_priority_score(
           call.severity - 1, call.urgency,
           [efficiency_score |-> call.efficiency_score]) < ret.value

\* the urgency bonus of the reference formula, urgency read
\* case-insensitively
ReferenceUrgencyBonus(urgency) ==
    CASE urgency \in {s_critical, t_CRITICAL} -> 30
      [] urgency \in {s_urgent, t_Urgent} -> 25
      [] urgency \in {s_high, t_High} -> 15
      [] urgency \in {s_medium} -> 10
      [] OTHER -> 5

\* C6 as stated: for severity 1..5 the score is
\* min(100, severity*10 + urgencyBonus + round(efficiencyScore*0.2)).
C6_ReferenceRounded ==
    (/\ pc = "done"
     /\ call.fn = "_calculate_priority_score"
     /\ call.severity \in 1..5)
    => ret.value = Min(100, call.severity * 10
                            + ReferenceUrgencyBonus(call.urgency)
                            + RoundHalfEven(call.efficiency_score * 2, 10))

\* C6 amended: for severity 1..5 the score is
\* min(100, severity*10 + urgencyBonus + floor(efficiencyScore*0.2)): the
\* efficiency bonus is truncated, not rounded.
C6_ReferenceTruncated ==
    (/\ pc = "done"
     /\ call.fn = "_calculate_priority_score"
     /\ call.severity \in 1..5)
    => ret.value = Min(100, call.severity * 10
                            + ReferenceUrgencyBonus(call.urgency)
                            + (call.efficiency_score \div 5))

\* C6 witness: an upper-case urgency and an efficiency score whose fifth
\* rounds up but truncates down, below the cap of 100.
C6_Witness ==
    /\ pc = "done"
    /\ call.fn = "_calculate_priority_score"
    /\ call.severity \in 1..5
    /\ call.urgency = t_CRITICAL
    /\ call.efficiency_score % 5 >= 3
    /\ ret.value < 100

\* C7: the efficiency score is an integer in [0, 100] for every
\* non-negative total and beneficiary count.
C7_EfficiencyInRange ==
    (pc = "done" /\ call.fn = "_calculate_efficiency") =>
        ret.value \in 0..100

\* C7 witness: no beneficiaries and a cost per person far above the last
\* tier boundary, scored at the floor.
C7_Witness ==
    /\ pc = "done"
    /\ call.fn = "_calculate_efficiency"
    /\ call.beneficiaries = 0
    /\ call.total >= 200 * 100
    /\ ret.value = 50

\* perPerson(total1, b1) <= perPerson(total2, b2), perPerson = total / max(b, 1)
PerPersonLeq(total1, b1, total2, b2) ==
    total1 * Max(b2, 1) <= total2 * Max(b1, 1)

C10_CostBounds ==
    (pc = "done" /\ call.fn = "_estimate_costs") =>
        /\ ret.value.total >= ret.value.base_cost
        /\ ret.value.base_cost >= 0
        /\ ret.value.multiplier >= 10

\* C10 witness: a priced supply list sent to a region with a multiplier.
C10_Witness ==
    /\ pc = "done"
    /\ call.fn = "_estimate_costs"
    /\ call.location = t_GAZA
    /\ ret.value.multiplier = 14
    /\ ret.value.base_cost > 0
    /\ ret.value.total > ret.value.base_cost

RECURSIVE SumLines(_, _, _)
\* the sum over the supply lines of table[code] * quantity, a code that the
\* table does not hold counting for `default`
SumLines(supplies, table, default) ==
    IF supplies = <<>> THEN 0
    ELSE LET last == supplies[Len(supplies)] IN
         SumLines(SubSeq(supplies, 1, Len(supplies) - 1), table, default)
         + (IF last.code \in DOMAIN table THEN table[last.code] ELSE default)
           * last.quantity

\* C11: baseCost is the sum of unitCost(code) * quantity with 100 for a code
\* outside the cost table, logisticsCost = baseCost * 0.20 * multiplier,
\* administrativeCost = baseCost * 0.05, and the reported total is the sum of
\* the three reported fields (amounts in cents, multiplier in tenths).
C11_CostModel ==
    (pc = "done" /\ call.fn = "_estimate_costs") =>
        /\ ret.value.base_cost = 100 * SumLines(call.supplies, cost_map, 100)
        /\ 1000 * ret.value.logistics_cost
               = ret.value.base_cost * 20 * ret.value.multiplier
        /\ 100 * ret.value.admin_cost = ret.value.base_cost * 5
        /\ ret.value.total = ret.value.base_cost + ret.value.logistics_cost
                             + ret.value.admin_cost

\* C11 witness: a list with a code outside the cost table, priced at the
\* default, sent to a region whose multiplier is above 1.0.
C11_Witness ==
    /\ pc = "done"
    /\ call.fn = "_estimate_costs"
    /\ \E i \in DOMAIN call.supplies :
           /\ call.supplies[i].code = "blanket"
           /\ call.supplies[i].quantity > 0
    /\ ret.value.multiplier > 10
    /\ ret.value.logistics_cost > 20 * (ret.value.base_cost \div 100)

\* C12: estimatedBeneficiaries is the sum of beneficiariesPerUnit(code) *
\* quantity, a code outside the impact table (clothing-package-adult, which
\* the cost table does hold, included) counting 10 per unit; the result is a
\* non-negative integer.
C12_ImpactSum ==
    (pc = "done" /\ call.fn = "_estimate_impact") =>
        /\ ret.value.beneficiaries
               = SumLines(call.supplies, beneficiaries_map, 10)
        /\ ret.value.beneficiaries \in Nat
        /\ \A i \in DOMAIN call.supplies :
               call.supplies[i].code = "clothing-package-adult"
                   => /\ call.supplies[i].code \in DOMAIN cost_map
                      /\ ret.value.beneficiaries >= 10 * call.supplies[i].quantity

\* C12 witness: a list holding clothing-package-adult next to a tabulated
\* code, both with a positive quantity.
C12_Witness ==
    /\ pc = "done"
    /\ call.fn = "_estimate_impact"
    /\ \E i, j \in DOMAIN call.supplies :
           /\ call.supplies[i].code = "clothing-package-adult"
           /\ call.supplies[i].quantity > 0
           /\ call.supplies[j].code = "medical-kit-basic"
           /\ call.supplies[j].quantity > 0
    /\ ret.value.beneficiaries > 50

\* the kind of relief an item code stands for
ItemKind(code) ==
    CASE code \in {"medical-kit-basic", "medical-kit-advanced"} -> "medical"
      [] code = "food-package-family" -> "food"
      [] code = "water-purification-kit" -> "water"
      [] code = "shelter-tent-family" -> "shelter"
      [] OTHER -> "other"

\* the kinds of relief a supply list covers
KindsOf(supplies) == {ItemKind(supplies[i].code) : i \in DOMAIN supplies}

\* C13: _recommend_supplies returns, for every category, a non-empty list
\* of lines with positive integer quantities, and for a category without a
\* package of its own, or a missing category, the general package, which
\* holds a medical, a food, a water and a shelter item.
C13_SuppliesTotal ==
    (pc = "done" /\ call.fn = "_recommend_supplies") =>
        /\ ~ret.raised
        /\ ret.value # <<>>
        /\ \A i \in DOMAIN ret.value : ret.value[i].quantity \in Nat \ {0}
        /\ ("type" \notin DOMAIN call.intent
            \/ call.intent.type
                 \notin {"medical-emergency", "food-security", "water-crisis"})
           => /\ {"medical", "food", "water", "shelter"} \subseteq KindsOf(ret.value)
              /\ \A i \in DOMAIN ret.value :
                     ret.value[i].code \in DOMAIN cost_map

\* C13 witness: a category the planner has no package for, and an intent
\* without category, both answered with the four-item general package.
C13_Witness ==
    /\ pc = "done"
    /\ call.fn = "_recommend_supplies"
    /\ \/ "type" \notin DOMAIN call.intent
       \/ call.intent.type = "earthquake"
    /\ Len(ret.value) = 4
    /\ KindsOf(ret.value) = {"medical", "food", "water", "shelter"}

\* a location names a region of the cost table: its lower-case form holds
\* the name of the region
NamesCostRegion(location) ==
    /\ Truthy(location)
    /\ \E r \in {s_gaza, s_syria, s_yemen, s_sudan, s_haiti} :
           Contains(Lower(location), r)

\* C14: a location that names a known region, in any case and as a part of
\* a longer name, gets a multiplier in 1.3-1.8, every other location gets
\* 1.0, and a location has a multiplier above 1.0 exactly when it has a
\* timeline penalty and exactly when it has a region note among the risks.
C14_RegionMatch ==
    (pc = "done" /\ call.fn = "_estimate_costs") =>
        /\ NamesCostRegion(call.location) => ret.value.multiplier \in 13..18
        /\ ~NamesCostRegion(call.location) => ret.value.multiplier = 10
        /\ Truthy(call.location) =>
               /\ ret.value.multiplier > 10
                      <=> _estimate_timeline(s_normal, call.location)
                              > _estimate_timeline(s_normal, None)
               /\ ret.value.multiplier > 10
                      <=> _identify_risk_factors(call.location, s_medium, 3)
                              # <<"Standard logistics challenges">>

\* the urgencies that read critical or urgent when case is ignored
PressingUrgencies == {s_critical, t_CRITICAL, s_urgent, t_Urgent}

\* the region note expected for a location: that of the first region, in
\* the order of the table, that the location names
ExpectedRegionNote(location) ==
    IF location \in {t_Gaza, t_GAZA, t_Gaza_Strip, t_Syria_Gaza}
    THEN <<"Restricted access zone with security concerns">>
    ELSE IF location = s_haiti
    THEN <<"Infrastructure damage may affect delivery">>
    ELSE IF location = s_afghanistan
    THEN <<"Security clearance required">>
    ELSE <<>>

\* the risk notes expected for a call, in their order
ExpectedRiskNotes(location, urgency, severity) ==
    (IF urgency \in PressingUrgencies
     THEN <<"High urgency requires expedited delivery">> ELSE <<>>)
    \o (IF severity >= 4
        THEN <<"High severity crisis with potential access challenges">>
        ELSE <<>>)
    \o ExpectedRegionNote(location)

\* C15: _identify_risk_factors never returns an empty list; it returns the
\* expedited-delivery note (iff urgency is critical or urgent), then the
\* access-challenges note (iff severity >= 4), then at most one region note
\* (the first matching region); the placeholder appears iff none of these
\* applies and is then the only element.
C15_RiskNotesOrdered ==
    (pc = "done" /\ call.fn = "_identify_risk_factors") =>
        LET expected == ExpectedRiskNotes(call.location, call.urgency,
                                          call.severity)
        IN  /\ ret.value # <<>>
            /\ expected # <<>> => ret.value = expected
            /\ expected = <<>>
                   => ret.value = <<"Standard logistics challenges">>
            /\ (\E i \in DOMAIN ret.value :
                    ret.value[i] = "Standard logistics challenges")
                   <=> expected = <<>>

\* C15 witness: a pressing urgency, a severity of 4 or more and a location
\* naming two regions give three notes, the region note last.
C15_Witness ==
    /\ pc = "done"
    /\ call.fn = "_identify_risk_factors"
    /\ call.location = t_Syria_Gaza
    /\ call.urgency = t_Urgent
    /\ call.severity >= 4
    /\ Len(ret.value) = 3
    /\ ret.value[3] = "Restricted access zone with security concerns"

\* a call of the planner for a crisis given by category, location, urgency
PlannedFor(category, location, urgency) ==
    /\ pc = "done"
    /\ call.fn = "optimize_mission_plan"
    /\ "crisis_type" \in DOMAIN call.kwargs
    /\ call.kwargs.crisis_type = category
    /\ call.kwargs.location = location
    /\ call.kwargs.urgency = urgency

\* C16: planning for category earthquake, location Gaza, urgency critical
\* yields a plan whose supplies include a medical, a shelter and a water
\* item, costed with a regional multiplier of 1.5, with an efficiency score
\* of at least 50 and a timeline longer than the base timeline of a
\* critical crisis.
C16_ScenarioGaza ==
    PlannedFor("earthquake", t_Gaza, s_critical) =>
        /\ ~ret.raised
        /\ {"medical", "shelter", "water"} \subseteq KindsOf(ret.value.supplies)
        /\ _estimate_costs(ret.value.supplies, t_Gaza).multiplier = 15
        /\ ret.value.efficiency_score >= 50
        /\ ret.value.estimated_timeline.days
               > _estimate_timeline(s_critical, None)

\* C17: planning for category water-crisis, location Unknown Town, urgency
\* medium yields a plan whose supplies are water items only, costed with a
\* regional multiplier of 1.0, and whose reasoning has no risk-factor clause.
C17_ScenarioUnknownTown ==
    PlannedFor("water-crisis", t_Unknown_Town, s_medium) =>
        /\ ~ret.raised
        /\ KindsOf(ret.value.supplies) = {"water"}
        /\ _estimate_costs(ret.value.supplies, t_Unknown_Town).multiplier = 10
        /\ \A i \in DOMAIN ret.value.reasoning :
               ret.value.reasoning[i].clause # "Risk factors"

\* C18: the planner, called with category, location, urgency and an
\* optional budget as the HTTP handlers and the prioritizer call it, never
\* raises and always returns a mission plan, whatever the category and the
\* location.
C18_PlanTotal ==
    (/\ pc = "done"
     /\ call.fn = "optimize_mission_plan"
     /\ "crisis_type" \in DOMAIN call.kwargs) =>
        /\ ~ret.raised
        /\ {"supplies", "estimated_cost", "estimated_beneficiaries",
            "estimated_timeline", "efficiency_score", "reasoning"}
               \subseteq DOMAIN ret.value

\* the crisis names of the six known event-type codes
ReferenceCrisisName(code) ==
    CASE code = "EQ" -> s_earthquake
      [] code = "TC" -> s_cyclone
      [] code = "FL" -> s_flood
      [] code = "VO" -> s_volcano
      [] code = "WF" -> s_wildfire
      [] code = "DR" -> s_drought

\* the slugs of the type names of the drawn records
ReferenceSlug(type_name) ==
    CASE type_name = t_Earthquake -> s_earthquake
      [] type_name = t_Land_Slide ->
             <<"l", "a", "n", "d", "-", "s", "l", "i", "d", "e">>

\* C19: the codes EQ, TC, FL, VO, WF, DR become earthquake, cyclone, flood,
\* volcano, wildfire, drought; every other code becomes the type name in
\* lower case with hyphens for spaces; an absent severity reads 3 and an
\* absent urgency "medium", a present one is taken as it is.
C19_Normalize ==
    (pc = "done" /\ call.fn = "normalize") =>
        /\ ~ret.raised
        /\ ("eventType" \in DOMAIN call.items
            /\ call.items.eventType \in {"EQ", "TC", "FL", "VO", "WF", "DR"})
           => ret.value.crisis_type = ReferenceCrisisName(call.items.eventType)
        /\ ("eventType" \in DOMAIN call.items
            /\ call.items.eventType \notin {"EQ", "TC", "FL", "VO", "WF", "DR"}
            /\ "typeName" \in DOMAIN call.items)
           => ret.value.crisis_type = ReferenceSlug(call.items.typeName)
        /\ ret.value.severity
               = (IF "severity" \in DOMAIN call.items
                  THEN call.items.severity ELSE 3)
        /\ ret.value.urgency
               = (IF "urgency" \in DOMAIN call.items
                  THEN call.items.urgency ELSE s_medium)

\* C19 witness: an unknown code with a two-word type name and neither
\* severity nor urgency in the record.
C19_Witness ==
    /\ pc = "done"
    /\ call.fn = "normalize"
    /\ DOMAIN call.items = {"title", "eventType", "typeName"}
    /\ call.items.eventType = "LS"
    /\ call.items.typeName = t_Land_Slide
    /\ ret.value.crisis_type = <<"l", "a", "n", "d", "-", "s", "l", "i", "d", "e">>
    /\ ret.value.severity = 3
    /\ ret.value.urgency = s_medium

\* C20: the recommendation ends with "IMMEDIATE ACTION REQUIRED" if and
\* only if the urgency reads critical or urgent when case is ignored; for
\* every other urgency the recommendation does not hold that sentence.
C20_ImmediateSuffix ==
    (pc = "done" /\ call.fn = "_generate_recommendation") =>
        LET r == ret.value
            suffixed == {i \in DOMAIN r :
                            r[i].sentence = "IMMEDIATE ACTION REQUIRED"}
        IN  /\ call.urgency \in {s_critical, t_CRITICAL, s_urgent, t_Urgent}
                   => suffixed = {Len(r)}
            /\ call.urgency \notin {s_critical, t_CRITICAL, s_urgent, t_Urgent}
                   => suffixed = {}

\* C20 witness: an urgency written in capitals gets the suffix after the
\* three sentences of the recommendation.
C20_Witness ==
    /\ pc = "done"
    /\ call.fn = "_generate_recommendation"
    /\ call.urgency = t_CRITICAL
    /\ Len(ret.value) = 4
    /\ ret.value[4].sentence = "IMMEDIATE ACTION REQUIRED"

\* the base days of an urgency: critical 2, urgent 3, anything else 7
ReferenceBaseDays(urgency) ==
    IF urgency = s_critical THEN 2 ELSE IF urgency = s_urgent THEN 3 ELSE 7

\* the penalty of a drawn location: Gaza 3, Syria and Yemen 7, otherwise 0
ReferencePenalty(location) ==
    IF location \in {t_Gaza, t_GAZA} THEN 3
    ELSE IF location \in {s_syria, t_Syria, s_yemen} THEN 7
    ELSE 0

\* C21: the timeline is a positive number of days, the base days of the
\* urgency (critical 2, urgent 3, anything else 7) plus the penalty of the
\* location (Gaza 3, Syria or Yemen 7, otherwise 0); for the same location
\* an urgency with fewer base days never gets a longer timeline.
C21_Timeline ==
    (pc = "done" /\ call.fn = "_estimate_timeline") =>
        /\ ret.value \in Nat \ {0}
        /\ ret.value = ReferenceBaseDays(call.urgency)
                       + ReferencePenalty(call.location)
        /\ \A u \in TimelineUrgencies :
               ReferenceBaseDays(call.urgency) <= ReferenceBaseDays(u)
                   => ret.value <= _estimate_timeline(u, call.location)

\* C21 witness: a critical request for Syria takes 2 + 7 days.
C21_Witness ==
    /\ pc = "done"
    /\ call.fn = "_estimate_timeline"
    /\ call.urgency = s_critical
    /\ call.location = t_Syria
    /\ ret.value = 9

\* C22: every plan the planner returns carries supplies (each with name,
\* quantity and code), estimated_cost, estimated_beneficiaries,
\* estimated_timeline, efficiency_score, reasoning and crisis_category, so
\* that the prioritizer can build its analysis of a record from the plan.
C22_PlanFields ==
    (pc = "done" /\ call.fn = "optimize_mission_plan" /\ ~ret.raised) =>
        /\ \A i \in DOMAIN ret.value.supplies :
               {"name", "quantity", "code"}
                   \subseteq DOMAIN ret.value.supplies[i]
        /\ {"supplies", "estimated_cost", "estimated_beneficiaries",
            "estimated_timeline", "efficiency_score", "reasoning",
            "crisis_category"} \subseteq DOMAIN ret.value
        /\ \A r \in ValidRecords :
               ~analysis_of(read_fields(r.items), ret.value).raised

RECURSIVE AnalysesOf(_)
\* the analyses of the records that analyze_single_disaster does not fail on
AnalysesOf(records) ==
    IF records = <<>> THEN <<>>
    ELSE (IF analyze_single_disaster(Head(records)).raised THEN <<>>
          ELSE <<analyze_single_disaster(Head(records)).value>>)
         \o AnalysesOf(Tail(records))

\* the result of a call that runs alone
AloneResult(c) ==
    IF c.fn = "analyze_disasters"
    THEN Returned(sort_reverse(AnalysesOf(first_records(c.disasters))))
    ELSE call_optimize_mission_plan(c.kwargs)

\* C23: under any interleaving of concurrent calls of the planner and of
\* analyze_disasters, the result of each call is the result of that call
\* run alone on the same arguments, and the batch passed to
\* analyze_disasters stays as it was passed.
C23_NoInterference ==
    \A p \in Procs :
        /\ call[p].fn = "analyze_disasters" => disasters = call[p].disasters
        /\ pc[p] = "done" => ret[p] = AloneResult(call[p])

\* C23 witness: a planner call has returned its plan while another call,
\* for another description, is between its statements.
C23_Witness ==
    /\ pc[1] = "done"
    /\ pc[2] = "estimate"
    /\ call[1].fn = "optimize_mission_plan"
    /\ ~ret[1].raised
    /\ locals[1].intent # locals[2].intent
    /\ ret[1].value.supplies # locals[2].supplies

\* C25: without the hyperon library the agent does not crash at start-up,
\* it runs with MeTTa disabled, and handle_optimization_request and
\* handle_general_query answer with their static fallback message.
C25_NoHyperonNoCrash ==
    ~call.env.hyperon_installed =>
        /\ pc # "crashed"
        /\ pc \in {"running", "send", "idle"} =>
               /\ ~globals.metta_enabled
               /\ globals.reasoner = None
        /\ pc \in {"send", "idle"} =>
               /\ locals.handlers = <<"handle_optimization_request">> =>
                      locals.response.message =
                          "I can help optimize your humanitarian mission!"
               /\ locals.handlers = <<"handle_general_query">> =>
                      locals.response.message = "I understand you're asking"

\* C26: a chat message whose only keyword is "help" is answered with the
\* welcome message of handle_greeting.
C26_HelpGreeted ==
    pc = "idle" /\ Lower(call.msg.message) = s_help =>
        /\ locals.handlers = <<"handle_greeting">>
        /\ sent[1].message = handle_greeting.message

\* the handler of each message, read off the keyword lists by hand
ReferenceHandler(message) ==
    CASE message \in {m_create} -> "handle_mission_creation_intent"
      [] message \in {m_status, m_show} -> "handle_status_query"
      [] message \in {m_donate, m_help, m_HELP} -> "handle_donation_intent"
      [] message \in {m_optimize} -> "handle_optimization_request"
      [] message \in {m_hello, m_what, m_this} -> "handle_greeting"
      [] message \in {m_thanks} -> "handle_general_query"

\* the first line of the static reply of the handlers that can fail inside
StaticReply(handler) ==
    CASE handler = "handle_status_query" ->
             "I can check mission status for you!"
      [] handler = "handle_optimization_request" ->
             "I can help optimize your humanitarian mission!"
      [] handler = "handle_general_query" -> "I understand you're asking"

C27_OneHandlerOneReply ==
    /\ Len(sent) <= 1
    /\ pc \in {"send", "idle"} =>
           /\ locals.handlers = <<ReferenceHandler(call.msg.message)>>
           /\ errors # <<>> =>
                  /\ errors = locals.handlers
                  /\ locals.response.message = StaticReply(errors[1])
    /\ pc = "idle" <=> Len(sent) = 1
    /\ pc = "idle" =>
           /\ sent[1].to = call.sender
           /\ sent[1].model = "ChatResponse"
           /\ sent[1].message = locals.response.message

\* C27: handle_chat picks the handler by an ordered first match over the
\* keyword lists with case-insensitive substring tests, invokes exactly one
\* handler for a ChatRequest, and sends exactly one ChatResponse to the
\* sender of the request, also when a call inside the handler fails (the
\* handler then falls back to its static reply).
C27_ChatAnswered ==
    /\ []C27_OneHandlerOneReply
    /\ (pc = "running") ~> (pc = "idle" /\ Len(sent) = 1)

\* a handler whose blockchain or MeTTa call failed has answered
C27_Witness ==
    /\ pc = "idle"
    /\ errors # <<>>
    /\ Len(sent) = 1
    /\ sent[1].to = call.sender

\* the conditions of validity as the claim words them
ReferenceValid(d) ==
    /\ "location" \in DOMAIN d /\ d["location"] # <<>>
    /\ "funding_goal" \in DOMAIN d
    /\ 0 < d["funding_goal"] /\ d["funding_goal"] <= 1000000
    /\ "items" \in DOMAIN d /\ d["items"] # <<>>

\* whether the check at this position of the order location, funding goal,
\* items, funding limit fails
ReferenceFails(position, d) ==
    CASE position = 1 -> "location" \notin DOMAIN d \/ d["location"] = <<>>
      [] position = 2 ->
             "funding_goal" \notin DOMAIN d \/ d["funding_goal"] <= 0
      [] position = 3 -> "items" \notin DOMAIN d \/ d["items"] = <<>>
      [] position = 4 ->
             "funding_goal" \in DOMAIN d /\ d["funding_goal"] > 1000000

ReferenceReason(position) ==
    CASE position = 1 -> "Location is required"
      [] position = 2 -> "Valid funding goal is required"
      [] position = 3 -> "At least one supply item is required"
      [] position = 4 -> "Funding goal exceeds reasonable limit ($1M PYUSD)"

\* C29: validate_mission reports is_valid = true exactly when location is
\* non-empty, funding_goal is present with 0 < funding_goal <= 1,000,000 and
\* items is non-empty; when several checks fail the reason is that of the
\* last failing check in the order location, funding goal, items, funding
\* limit; when valid the reason is 'Mission data is valid'; the mission
\* data passed in is not modified.
C29_Validate ==
    pc = "done" =>
        /\ ~ret.raised
        /\ ret.value.is_valid <=> ReferenceValid(call.mission_data)
        /\ ret.value.is_valid => ret.value.reason = "Mission data is valid"
        /\ ~ret.value.is_valid =>
               \E last \in 1..4 :
                   /\ ReferenceFails(last, call.mission_data)
                   /\ \A later \in (last + 1)..4 :
                          ~ReferenceFails(later, call.mission_data)
                   /\ ret.value.reason = ReferenceReason(last)
        /\ locals.mission_data = call.mission_data

\* a mission without location whose funding goal is over the limit: two
\* checks fail, the later one gives the reason
C29_Witness ==
    /\ pc = "done"
    /\ "location" \notin DOMAIN call.mission_data
    /\ Get(call.mission_data, "funding_goal", 0) > 1000000
    /\ ret.value.reason = "Funding goal exceeds reasonable limit ($1M PYUSD)"

\* C24: the mission_id in a success MissionResponse is the id of the
\* mission this request created, also when another creator's transaction is
\* mined in between or when the request's transaction is mined but reverted.
C24_OwnMissionId ==
    \A i \in DOMAIN sent :
        sent[i].model = "MissionResponse" /\ sent[i].success =>
            /\ sent[i].mission_id \in DOMAIN chain.missions
            /\ chain.missions[sent[i].mission_id].tx =
                   sent[i].transaction_hash

\* whether the request's call of blockchain.create_mission was made
LedgerCalled ==
    \/ pc \in {"tx_sent", "tx_mined", "created"}
    \/ "tx_hash" \in DOMAIN locals
    \/ errors # <<>>

\* C28: the create_mission handler sends exactly one MissionResponse on
\* every path (blockchain disabled, validation failed, ledger error,
\* success); when validation is enabled and fails the ledger is never called
\* for the request and the response has success = false; success = true is
\* sent only after the ledger call returned.
C28_OneMissionResponse ==
    /\ Len(sent) <= 1
    /\ pc = "done" <=> Len(sent) = 1
    /\ \A i \in DOMAIN sent :
        /\ sent[i].model = "MissionResponse"
        /\ sent[i].to = call.sender
        /\ sent[i].success =>
               /\ "mission_id" \in DOMAIN locals
               /\ sent[i].mission_id = locals["mission_id"]
               /\ sent[i].transaction_hash = locals["tx_hash"]
    /\ /\ "validation" \in DOMAIN locals
       /\ ~locals["validation"].is_valid
       => /\ ~LedgerCalled
          /\ \A m \in DOMAIN chain.missions : chain.missions[m].tx # own_tx
          /\ pc = "done"
          /\ ~sent[1].success
    /\ ~globals.blockchain_enabled => ~LedgerCalled

\* a request that failed validation has its one reply
C28_Witness ==
    /\ pc = "done"
    /\ "validation" \in DOMAIN locals
    /\ ~locals["validation"].is_valid
    /\ Len(sent) = 1
    /\ ~sent[1].success

\* C30: every MissionQuery is eventually answered with exactly one
\* MissionInfo, whose total_count is the number of missions it lists, also
\* when the blockchain interface is disabled.
C30_QueryAnswered ==
    /\ [](/\ Len(sent) <= 1
          /\ \A i \in DOMAIN sent :
                /\ sent[i].model = "MissionInfo"
                /\ sent[i].to = call.sender
                /\ sent[i].total_count = Len(sent[i].missions))
    /\ (pc = "received") ~> (Len(sent) = 1)

====
